---- MODULE Spec2Model ----
(***************************************************************************)
(* Verification model of the village-map analyst.                          *)
(*                                                                         *)
(* The overlap resolver processOverlaps (App.tsx of the map analyzer) is a *)
(* pure function over an AnalysisResult; it is modelled as an operator     *)
(* computed the way the code computes it (Map index built by a linear      *)
(* scan, filter, template-string rendering, joins), and is applied by the  *)
(* action Call to an input batch chosen in Init.                           *)
(***************************************************************************)
EXTENDS FiniteSets, Integers, Sequences, TLC

\* the resolver: the argument of a call of processOverlaps as the caller reads
\* it, what the call returned as the caller reads it, and where the call
\* stands
VARIABLES rawData, processed, pc
\* the argument as it was before the first call, the address of the array
\* that the first call returned (0 before it), and what a later call returned
VARIABLES snapshot, outRefs, second
\* the objects and arrays of the caller and of the calls: heap[a] is the
\* object at address a, and the argument of the first call is at address 1
VARIABLES heap

resolverVars == <<rawData, processed, pc, snapshot, outRefs, second, heap>>

\* streamAnalysis: where the call stands, the retry counter, the text of the
\* current attempt, and what the call returned or threw
VARIABLES sPc, attempt, fullText, sReturn, sError
\* what the outside saw of the call: the requests made, the chunks of the
\* current attempt, the arguments of onChunk (and how many of them precede the
\* current attempt), the waits performed and the failures caught
VARIABLES requests, received, onChunkArgs, attemptStart, waits, failures
\* the number of chunks delivered since the call began
VARIABLES delivered
\* the ModelType member that the App's config names ("FLASH_2_0" as
\* constructed, "FLASH" or "PRO_REASONING" once an option is clicked), the
\* config argument of the call, and the config of every request sent
VARIABLES selected, config, sent

streamConfig == <<selected, config>>

streamVars == <<sPc, attempt, fullText, sReturn, sError,
                requests, received, onChunkArgs, attemptStart, waits, failures,
                delivered, selected, config, sent>>

\* analyzeVillageMap: the arguments and environment of a call, and how the
\* returned promise settled
VARIABLES xArgs, xPromise
\* services/geminiService.ts: the module constant MOCK_DATA as a reader sees
\* it, and the calls made to the module so far with what they resolved to
VARIABLES mockData, xLog
\* services/geminiService.ts: the objects of the module and of its calls; the
\* object that MOCK_DATA refers to is at address 1
VARIABLES xHeap
\* where a call of analyzeVillageMap stands between its awaits, and the
\* result that its timer callback holds
VARIABLES xPc, xResult
\* services/geminiService.ts: the calls of the module that are in flight, in
\* the order in which they were made
VARIABLES xPending

extractVars == <<xArgs, xPromise, mockData, xLog, xPc, xResult, xPending, xHeap>>

\* App: the component's state
VARIABLES files, results, isAnalyzing, appError
VARIABLES manualVillageName, manualPartitionId, partitionSource

\* App: import.meta.env.VITE_API_KEY and the module that
\* './services/geminiService' resolves to
VARIABLES VITE_API_KEY, serviceModule

\* App: where the running handler is ("awaiting", "sample") or which handler
\* returned last ("analyzed", "sampled"), and the analyzeVillageMap calls that
\* handleAnalyze made
VARIABLES hPc, calls

\* App: whether a call settled before a call for an earlier file, how often
\* the running handler called processOverlaps, and with what argument
VARIABLES outOfOrder, resolverRuns, resolverArg

\* App: the content of the file that downloadCSV offered
VARIABLES csvContent

\* which App is mounted: "part_001" (the App with the overlap resolver) or
\* "App.tsx" (src/src/App.tsx); both declare files, results, isAnalyzing and
\* error
VARIABLES mounted

appVars == <<files, results, isAnalyzing, appError,
             manualVillageName, manualPartitionId, partitionSource,
             VITE_API_KEY, serviceModule, hPc, calls,
             outOfOrder, resolverRuns, resolverArg, csvContent, mounted>>

\* App.tsx: the runs of handleAnalyze and loadSample that are in flight
VARIABLES ops

tsxVars == <<ops>>

\* the state outside the resolver
otherThanResolver == <<streamVars, extractVars, appVars, tsxVars>>

\* the state outside streamAnalysis
otherThanStream == <<resolverVars, extractVars, appVars, tsxVars>>

\* the state outside analyzeVillageMap
otherThanExtract == <<resolverVars, streamVars, appVars, tsxVars>>

\* the state outside App
otherThanApp == <<resolverVars, streamVars, extractVars, tsxVars>>

vars == <<resolverVars, streamVars, extractVars, appVars, tsxVars>>

\* enum ModelType
ModelType == [FLASH |-> "gemini-2.0-flash", PRO_REASONING |-> "gemini-2.0-flash"]

\* the value of a property that the object does not have
undefined == "undefined"

\* ModelType.<member>: the enum has no member FLASH_2_0, which the text
\* analysis App names in its initial config
MemberOf(member) ==
  IF member \in DOMAIN ModelType THEN ModelType[member] ELSE undefined

\* the AnalysisConfig that the App holds for a model member and a budget
ConfigOf(member, budget) == [model |-> MemberOf(member), thinkingBudget |-> budget]

\* no error (error.status and error.message undefined)
NoError == [status |-> 0, message |-> ""]

\* streamAnalysis has not been called
StreamInit ==
  /\ sPc = "idle"
  /\ attempt = 0
  /\ fullText = ""
  /\ sReturn = ""
  /\ sError = NoError
  /\ requests = 0
  /\ received = <<>>
  /\ onChunkArgs = <<>>
  /\ attemptStart = 0
  /\ waits = <<>>
  /\ failures = <<>>
  /\ delivered = 0
  /\ selected = "FLASH_2_0"
  /\ config = ConfigOf("FLASH_2_0", 8192)
  /\ sent = <<>>

\* a promise not settled yet
Pending == [state |-> "pending", value |-> [partitions |-> <<>>], reason |-> ""]

\* analyzeVillageMap has not been called
ExtractInit ==
  /\ xArgs = [variant |-> "none", file |-> FALSE, apiKey |-> "",
              manualVillageName |-> "", manualPartitionId |-> "",
              service |-> [outcome |-> "none", value |-> [partitions |-> <<>>]]]
  /\ xPromise = Pending
  /\ mockData = [partitions |-> <<>>]
  /\ xLog = <<>>
  /\ xPc = "idle"
  /\ xResult = [partitions |-> <<>>]
  /\ xPending = <<>>
  /\ xHeap = <<>>

\* the value of an error state that holds no message
null == "null"

\* App as constructed: the useState initial values, no handler running
AppConstructed ==
  /\ files = <<>>
  /\ results = <<>>
  /\ isAnalyzing = FALSE
  /\ appError = null
  /\ hPc = "idle"
  /\ calls = <<>>
  /\ outOfOrder = FALSE
  /\ resolverRuns = 0
  /\ resolverArg = [partitions |-> <<>>]
  /\ csvContent = ""

\* App is not part of the run
AppInit ==
  /\ AppConstructed
  /\ mounted = "part_001"
  /\ ops = <<>>
  /\ manualVillageName = ""
  /\ manualPartitionId = ""
  /\ partitionSource = "manual"
  /\ VITE_API_KEY = ""
  /\ serviceModule = "service"

\* the resolver has not been given a batch
ResolverInit ==
  /\ rawData = [partitions |-> <<>>]
  /\ processed = <<>>
  /\ pc = "off"
  /\ snapshot = rawData
  /\ outRefs = 0
  /\ second = <<>>
  /\ heap = <<>>

\* nothing but the resolver is running
OnlyResolver == StreamInit /\ ExtractInit /\ AppInit

(***************************************************************************)
(* Bounds of the input space.                                              *)
(***************************************************************************)
MaxParts == 3
MaxSurveys == 4

\* the (villageName, partitionId) labels of the partitions of a batch; a label
\* may be used by several partitions (ids are not unique across the input)
Labels == {<<"Rampur Village", "P1">>, <<"Rampur Village", "P2">>,
           <<"Unknown", "P3">>}
SurveyNums == {"101", "12/3"}

(***************************************************************************)
(* String helpers: Array.prototype.join, and (for the properties) the      *)
(* inverse parsing of a rendered string.                                   *)
(***************************************************************************)
RECURSIVE joinFrom(_, _, _)
joinFrom(arr, sep, k) ==
  IF k > Len(arr) THEN ""
  ELSE IF k = Len(arr) THEN arr[k]
  ELSE arr[k] \o sep \o joinFrom(arr, sep, k + 1)

join(arr, sep) == joinFrom(arr, sep, 1)

(***************************************************************************)
(* The index: Map<string, string[]> built by the nested forEach.           *)
(***************************************************************************)
EmptyMap == [k \in {} |-> <<>>]

\* m.set(k, v): the map with k bound to v
MapSet(m, k, v) == (k :> v) @@ m

\* body of the inner forEach: create the entry if missing, then push the id
PushSurvey(m, surveyNum, partitionId) ==
  LET m1 == IF surveyNum \notin DOMAIN m THEN MapSet(m, surveyNum, <<>>) ELSE m
  IN  MapSet(m1, surveyNum, Append(m1[surveyNum], partitionId))

RECURSIVE ScanSurveys(_, _, _, _)
ScanSurveys(m, surveyNumbers, partitionId, j) ==
  IF j > Len(surveyNumbers) THEN m
  ELSE LET pushed == PushSurvey(m, surveyNumbers[j], partitionId)
       IN  \* the push leaves an entry for the number: the test always holds,
           \* and has the map evaluated push by push
           IF surveyNumbers[j] \in DOMAIN pushed
           THEN ScanSurveys(pushed, surveyNumbers, partitionId, j + 1)
           ELSE pushed

RECURSIVE ScanPartitions(_, _, _)
ScanPartitions(m, partitions, i) ==
  IF i > Len(partitions) THEN m
  ELSE ScanPartitions(ScanSurveys(m, partitions[i].surveyNumbers,
                                  partitions[i].partitionId, 1),
                      partitions, i + 1)

surveyToPartitions(data) == ScanPartitions(EmptyMap, data.partitions, 1)

(***************************************************************************)
(* The map step of processOverlaps.                                        *)
(***************************************************************************)
\* variant: threshold off by one (every indexed number is flagged)
IsOverlapping_AtLeastOne(index, s) == s \in DOMAIN index /\ Len(index[s]) > 0

\* filter callback: parts && parts.length > 1
IsOverlapping(index, s) == s \in DOMAIN index /\ Len(index[s]) > 1

\* variant: the filter runs over the distinct numbers (first occurrences only)
overlappingSurveys_Distinct(partition, index) ==
  LET nums == partition.surveyNumbers
      firsts == {j \in 1..Len(nums) : \A h \in 1..(j - 1) : nums[h] # nums[j]}
      Pick(j) == IF j \in firsts /\ IsOverlapping(index, nums[j])
                 THEN <<nums[j]>> ELSE <<>>
      F[j \in 0..Len(nums)] == IF j = 0 THEN <<>> ELSE F[j - 1] \o Pick(j)
  IN  F[Len(nums)]

\* variant: the first partition to have listed a number is not flagged for it
overlappingSurveys_LaterHolders(partition, index) ==
  SelectSeq(partition.surveyNumbers,
            LAMBDA s : IsOverlapping(index, s) /\ index[s][1] # partition.partitionId)

overlappingSurveys(partition, index) ==
  SelectSeq(partition.surveyNumbers, LAMBDA s : IsOverlapping(index, s))

\* `${s} -> ${parts.join(' / ')}` with parts = index.get(s) || []
OverlapEntry(index, s) ==
  s \o " → " \o join(IF s \in DOMAIN index THEN index[s] ELSE <<>>, " / ")

NoOverlaps == "No overlaps detected"

\* variant: no fallback to the sentinel
remarksOf_NoFallback(partition, index) ==
  LET overlapping == overlappingSurveys(partition, index)
  IN  IF Len(overlapping) > 0
      THEN join([k \in 1..Len(overlapping) |->
                   OverlapEntry(index, overlapping[k])], "; ")
      ELSE ""

remarksOf(partition, index) ==
  LET overlapping == overlappingSurveys(partition, index)
      remarks == IF Len(overlapping) > 0
                 THEN join([k \in 1..Len(overlapping) |->
                              OverlapEntry(index, overlapping[k])], "; ")
                 ELSE ""
  IN  IF remarks # "" THEN remarks ELSE NoOverlaps

\* variant: a remarks already present on the partition is kept and extended
WithRemarks_Append(partition, r) ==
  [f \in (DOMAIN partition) \cup {"remarks"} |->
     IF f = "remarks"
     THEN IF "remarks" \in DOMAIN partition THEN partition.remarks \o "; " \o r ELSE r
     ELSE partition[f]]

\* variant: the original fields are not spread into the new object
WithRemarks_NoSpread(partition, r) ==
  [partitionId |-> partition.partitionId, remarks |-> r]

\* { ...partition, remarks: r }
WithRemarks(partition, r) ==
  [f \in (DOMAIN partition) \cup {"remarks"} |->
     IF f = "remarks" THEN r ELSE partition[f]]

processOverlaps(data) ==
  LET index == surveyToPartitions(data)
  IN  [i \in 1..Len(data.partitions) |->
         WithRemarks(data.partitions[i], remarksOf(data.partitions[i], index))]

(***************************************************************************)
(* Objects.  An object or an array lives at an address of a heap, a        *)
(* sequence of objects; a property that holds an object or an array holds  *)
(* its address.  An AnalysisResult is an object whose partitions property  *)
(* holds an array of partition objects, whose surveyNumbers property holds *)
(* an array of strings.                                                    *)
(***************************************************************************)
\* a new object: it takes an address that no object has
New(h, object) == [heap |-> Append(h, object), ref |-> Len(h) + 1]

\* the objects of a batch built on top of h: the AnalysisResult, its array
\* of partitions, and for each partition its array of survey numbers and the
\* partition object
Store(h, data) ==
  LET n == Len(data.partitions)
      b == Len(h)
      arrayOf(i) == b + 1 + 2 * i
      objectOf(i) == b + 2 + 2 * i
      parts == [k \in 1..(2 * n) |->
                  IF k % 2 = 1
                  THEN data.partitions[(k + 1) \div 2].surveyNumbers
                  ELSE [f \in DOMAIN data.partitions[k \div 2] |->
                          IF f = "surveyNumbers" THEN arrayOf(k \div 2)
                          ELSE data.partitions[k \div 2][f]]]
  IN  [heap |-> h \o <<[partitions |-> b + 2], [i \in 1..n |-> objectOf(i)]>>
                  \o parts,
       ref |-> b + 1]

\* the partition at address a as its reader sees it
PartitionAt(h, a) ==
  [f \in DOMAIN h[a] |-> IF f = "surveyNumbers" THEN h[h[a][f]] ELSE h[a][f]]

\* the array of partitions at address a as its reader sees it
PartitionsAt(h, a) == [i \in 1..Len(h[a]) |-> PartitionAt(h, h[a][i])]

\* the AnalysisResult at address a as its reader sees it
ResultAt(h, a) == [partitions |-> PartitionsAt(h, h[a].partitions)]

\* variant: the map callback assigns partition.remarks and returns partition
SpreadWithRemarks_InPlace(h, a, r) ==
  [heap |-> [h EXCEPT ![a] = WithRemarks(h[a], r)], ref |-> a]

\* return { ...partition, remarks: r }: an object literal is a new object; the
\* spread copies the properties of the partition at address a, so that the
\* new object's surveyNumbers is the partition's own array
SpreadWithRemarks(h, a, r) == New(h, WithRemarks(h[a], r))

\* rawData.partitions.map(callback) from its i-th element on: out holds the
\* addresses returned so far; map returns a new array
RECURSIVE MapPartitions(_, _, _, _, _)
MapPartitions(h, arr, index, i, out) ==
  IF i > Len(arr) THEN New(h, out)
  ELSE LET made == SpreadWithRemarks(h, arr[i],
                                     remarksOf(PartitionAt(h, arr[i]), index))
       IN  MapPartitions(made.heap, arr, index, i + 1, Append(out, made.ref))

\* processOverlaps called with the AnalysisResult at address ref: the heap it
\* leaves and the address of the array it returns.  The Map, its arrays and
\* the arrays of filter and map inside the callback are reachable from the
\* call only; they are not kept as objects of the heap.
processOverlapsAt(h, ref) ==
  LET index == surveyToPartitions(ResultAt(h, ref))
  IN  MapPartitions(h, h[h[ref].partitions], index, 1, <<>>)

(***************************************************************************)
(* Input batches.                                                          *)
(***************************************************************************)
\* number of survey numbers held by the first i partitions of a batch
RECURSIVE TotalBefore(_, _)
TotalBefore(lens, i) ==
  IF i = 0 THEN 0 ELSE lens[i] + TotalBefore(lens, i - 1)

\* the batch of n partitions with the given labels and list lengths, whose
\* survey numbers are, in scan order, the elements of nums
Batch(n, labels, lens, nums) ==
  [partitions |->
     [i \in 1..n |->
        [villageName |-> labels[i][1],
         partitionId |-> labels[i][2],
         surveyNumbers |-> SubSeq(nums, TotalBefore(lens, i - 1) + 1,
                                        TotalBefore(lens, i))]]]

\* the documented scenario P1={12/1,101}, P2={16,17}, P3={12/3,101}, P4={20,12/3}
Scenario ==
  [partitions |-> <<
     [villageName |-> "Rampur Village", partitionId |-> "P1", surveyNumbers |-> <<"12/1", "101">>],
     [villageName |-> "Rampur Village", partitionId |-> "P2", surveyNumbers |-> <<"16", "17">>],
     [villageName |-> "Rampur Village", partitionId |-> "P3", surveyNumbers |-> <<"12/3", "101">>],
     [villageName |-> "Rampur Village", partitionId |-> "P4", surveyNumbers |-> <<"20", "12/3">>] >>]

\* the demo batch of the inlined service: it already carries a remarks field
MOCK_DATA ==
  [partitions |-> <<
     [villageName |-> "DEMO VILLAGE", partitionId |-> "V01-C1",
      surveyNumbers |-> <<"101", "102", "103/A">>,
      remarks |-> "No API Key provided - using demo data"] >>]

(***************************************************************************)
(* The state machine: one call of the resolver on one batch.               *)
(***************************************************************************)
\* any batch of at most MaxParts partitions holding at most MaxSurveys survey
\* numbers, or one of the two named batches
Init ==
  /\ \/ \E n \in 0..MaxParts :
          \E lens \in [1..n -> 0..MaxSurveys] :
            /\ TotalBefore(lens, n) <= MaxSurveys
            /\ \E labels \in [1..n -> Labels] :
                 \E nums \in [1..TotalBefore(lens, n) -> SurveyNums] :
                   rawData = Batch(n, labels, lens, nums)
     \/ rawData \in {Scenario, MOCK_DATA}
  /\ processed = <<>>
  /\ pc = "idle"
  /\ snapshot = rawData
  /\ outRefs = 0
  /\ second = <<>>
  /\ heap = Store(<<>>, rawData).heap
  /\ OnlyResolver

\* processOverlaps(rawData): the caller reads the returned array, and its
\* argument again
Call ==
  /\ pc = "idle"
  /\ LET call == processOverlapsAt(heap, 1)
     IN  /\ heap' = call.heap
         /\ outRefs' = call.ref
         /\ processed' = PartitionsAt(call.heap, call.ref)
         /\ rawData' = ResultAt(call.heap, 1)
  /\ pc' = "done"
  /\ UNCHANGED <<snapshot, second, otherThanResolver>>

Next == Call

Spec == Init /\ [][Next]_vars

(***************************************************************************)
(* A second call of the resolver: on its own output, on its output with    *)
(* the remarks removed, or on the same argument again.                     *)
(***************************************************************************)
\* a partition without its remarks field
Stripped(partition) ==
  [f \in (DOMAIN partition) \ {"remarks"} |-> partition[f]]

\* processOverlaps({ partitions: processed }): the caller wraps the array
\* that the first call returned
CallOnOutput ==
  /\ pc = "done"
  /\ LET wrapped == New(heap, [partitions |-> outRefs])
         call == processOverlapsAt(wrapped.heap, wrapped.ref)
     IN  /\ heap' = call.heap
         /\ second' = PartitionsAt(call.heap, call.ref)
         /\ processed' = PartitionsAt(call.heap, outRefs)
         /\ rawData' = ResultAt(call.heap, 1)
  /\ pc' = "again"
  /\ UNCHANGED <<snapshot, outRefs, otherThanResolver>>

\* processOverlaps on copies of the returned partitions without their remarks
CallOnStripped ==
  /\ pc = "done"
  /\ LET copies == Store(heap, [partitions |->
                                  [i \in 1..Len(processed) |-> Stripped(processed[i])]])
         call == processOverlapsAt(copies.heap, copies.ref)
     IN  /\ heap' = call.heap
         /\ second' = PartitionsAt(call.heap, call.ref)
         /\ processed' = PartitionsAt(call.heap, outRefs)
         /\ rawData' = ResultAt(call.heap, 1)
  /\ pc' = "stripped"
  /\ UNCHANGED <<snapshot, outRefs, otherThanResolver>>

\* processOverlaps(rawData) once more, straight after the first call or after
\* a call on another argument
CallRepeat ==
  /\ pc \in {"done", "again", "stripped"}
  /\ LET call == processOverlapsAt(heap, 1)
     IN  /\ heap' = call.heap
         /\ second' = PartitionsAt(call.heap, call.ref)
         /\ processed' = PartitionsAt(call.heap, outRefs)
         /\ rawData' = ResultAt(call.heap, 1)
  /\ pc' = "repeat"
  /\ UNCHANGED <<snapshot, outRefs, otherThanResolver>>

NextRepeat == Call \/ CallOnOutput \/ CallOnStripped \/ CallRepeat

SpecRepeat == Init /\ [][NextRepeat]_vars

(***************************************************************************)
(* A second call of the resolver on a batch that differs from the first in *)
(* one partition's villageName or pre-existing remarks.                    *)
(***************************************************************************)
\* data with the villageName of its i-th partition replaced
WithVillageName(data, i, name) ==
  [partitions |-> [data.partitions EXCEPT ![i].villageName = name]]

\* data with a remarks field r on its i-th partition
WithStaleRemarks(data, i, r) ==
  [partitions |->
     [k \in 1..Len(data.partitions) |->
        IF k = i
        THEN [f \in (DOMAIN data.partitions[k]) \cup {"remarks"} |->
                IF f = "remarks" THEN r ELSE data.partitions[k][f]]
        ELSE data.partitions[k]]]

\* snapshot takes the variant batch, second the resolver's output for it
CallOnVariant ==
  /\ pc = "done"
  /\ \E i \in 1..Len(rawData.partitions) :
       \/ snapshot' = WithVillageName(rawData, i, "Sitapur")
       \/ snapshot' = WithStaleRemarks(rawData, i, "101 → P9 / P8")
  /\ second' = processOverlaps(snapshot')
  /\ pc' = "variant"
  /\ UNCHANGED <<rawData, processed, outRefs, heap, otherThanResolver>>

NextVariant == Call \/ CallOnVariant

SpecVariant == Init /\ [][NextVariant]_vars

(***************************************************************************)
(* A second call of the resolver on the same partitions in another order.  *)
(***************************************************************************)
\* the permutations of 1..n
PermutationsOf(n) ==
  {f \in [1..n -> 1..n] : \A a, b \in 1..n : f[a] = f[b] => a = b}

\* data with its partitions in the order perm[1], perm[2], ...
Permuted(data, perm) ==
  [partitions |-> [k \in 1..Len(data.partitions) |-> data.partitions[perm[k]]]]

\* snapshot takes the permuted batch, second the resolver's output for it
CallOnPermuted ==
  /\ pc = "done"
  /\ \E perm \in PermutationsOf(Len(rawData.partitions)) :
       snapshot' = Permuted(rawData, perm)
  /\ second' = processOverlaps(snapshot')
  /\ pc' = "permuted"
  /\ UNCHANGED <<rawData, processed, outRefs, heap, otherThanResolver>>

NextPermuted == Call \/ CallOnPermuted

SpecPermuted == Init /\ [][NextPermuted]_vars

TypeOK ==
  /\ pc \in {"off", "idle", "done", "again", "stripped", "repeat", "variant",
             "permuted"}
  /\ pc = "idle" => processed = <<>>

(***************************************************************************)
(* Reading a rendered remarks string back (used by the properties only).   *)
(***************************************************************************)
\* first position >= k at which sub occurs in str, 0 if none
RECURSIVE IndexOfFrom(_, _, _)
IndexOfFrom(str, sub, k) ==
  IF k + Len(sub) - 1 > Len(str) THEN 0
  ELSE IF SubSeq(str, k, k + Len(sub) - 1) = sub THEN k
  ELSE IndexOfFrom(str, sub, k + 1)

IndexOf(str, sub) == IndexOfFrom(str, sub, 1)

RECURSIVE SplitStr(_, _)
SplitStr(str, sep) ==
  LET p == IndexOf(str, sep)
  IN  IF p = 0 THEN <<str>>
      ELSE <<SubSeq(str, 1, p - 1)>>
             \o SplitStr(SubSeq(str, p + Len(sep), Len(str)), sep)

Arrow == " → "

\* the entries of a remarks string (none for the sentinel)
Entries(remarks) ==
  IF remarks = NoOverlaps THEN <<>> ELSE SplitStr(remarks, "; ")

(***************************************************************************)
(* streamAnalysis: the retry loop around the streaming request.            *)
(***************************************************************************)
\* variant: one more attempt
MAX_RETRIES_Four == 3 + 1

MAX_RETRIES == 3

\* bound on the chunks the service delivers during one call
MaxChunks == 3

\* String.prototype.includes
Includes(str, sub) == IndexOf(str, sub) > 0

\* the failures of the service: error.status (0 when undefined) and
\* error.message ("" when undefined)
ServiceErrors ==
  {[status |-> 429, message |-> "Too Many Requests"],
   [status |-> 0,   message |-> "got status: 429 RESOURCE_EXHAUSTED"],
   [status |-> 0,   message |-> "Quota exceeded for quota metric"],
   [status |-> 400, message |-> "API key not valid"],
   [status |-> 500, message |-> ""]}

\* chunk.text of a chunk of the stream; "" stands for a chunk without text
ChunkTexts == {"", "ab", "c"}

\* variant: every failure is retried
isRateLimit_Always(error) == TRUE

\* error.status === 429 || (error.message && error.message.includes("429"))
\*   || (error.message && error.message.includes("Quota exceeded"))
isRateLimit(error) ==
  \/ error.status = 429
  \/ (error.message # "" /\ Includes(error.message, "429"))
  \/ (error.message # "" /\ Includes(error.message, "Quota exceeded"))

\* attempt * 5000
delayTime(n) == n * 5000

\* variant: the text so far is replaced by the chunk
Accumulate_Replace(text, chunkText) == chunkText

\* fullText += chunkText
Accumulate(text, chunkText) == text \o chunkText

\* const modelConfig = { systemInstruction: ... };
\* if (config.model === ModelType.PRO_REASONING) modelConfig.thinkingConfig =
\*   { thinkingBudget: config.thinkingBudget }
modelConfig(cfg) ==
  IF cfg.model = ModelType.PRO_REASONING
  THEN [systemInstruction |-> "getSystemInstruction",
        thinkingConfig |-> [thinkingBudget |-> cfg.thinkingBudget]]
  ELSE [systemInstruction |-> "getSystemInstruction"]

\* while (attempt < MAX_RETRIES) { try { await ai.models.generateContentStream(
\* entered from the call and from the end of a wait; past the loop the
\* function throws "Unexpected end of analysis stream."
LoopHead ==
  IF attempt < MAX_RETRIES
  THEN /\ sPc' = "requesting"
       /\ requests' = requests + 1
       /\ sent' = Append(sent, [model |-> config.model, config |-> modelConfig(config)])
       /\ UNCHANGED sError
  ELSE /\ sPc' = "thrown"
       /\ sError' = [status |-> 0, message |-> "Unexpected end of analysis stream."]
       /\ UNCHANGED <<requests, sent>>

\* variant: a rate-limit failure is always waited on and retried
Catch_NoGiveUp(error) ==
  /\ failures' = Append(failures, error)
  /\ IF isRateLimit(error)
     THEN /\ attempt' = attempt + 1
          /\ sPc' = "waiting"
          /\ waits' = Append(waits, delayTime(attempt'))
          /\ UNCHANGED sError
     ELSE /\ sPc' = "thrown"
          /\ sError' = error
          /\ UNCHANGED <<attempt, waits>>

\* the catch block, for the error caught
Catch(error) ==
  /\ failures' = Append(failures, error)
  /\ IF isRateLimit(error)
     THEN /\ attempt' = attempt + 1
          /\ IF attempt' >= MAX_RETRIES
             THEN /\ sPc' = "thrown"
                  /\ sError' = error
                  /\ UNCHANGED waits
             ELSE /\ sPc' = "waiting"
                  /\ waits' = Append(waits, delayTime(attempt'))
                  /\ UNCHANGED sError
     ELSE /\ sPc' = "thrown"
          /\ sError' = error
          /\ UNCHANGED <<attempt, waits>>

StreamCall ==
  /\ sPc = "idle"
  /\ LoopHead
  /\ UNCHANGED <<attempt, fullText, sReturn, received, onChunkArgs,
                 attemptStart, waits, failures, delivered, streamConfig,
                 otherThanStream>>

\* the request resolves with a response stream: let fullText = ""
RequestResolves ==
  /\ sPc = "requesting"
  /\ sPc' = "streaming"
  /\ fullText' = ""
  /\ received' = <<>>
  /\ attemptStart' = Len(onChunkArgs)
  /\ UNCHANGED <<attempt, sReturn, sError, requests, onChunkArgs, waits,
                 failures, delivered, streamConfig, sent, otherThanStream>>

RequestRejects ==
  /\ sPc = "requesting"
  /\ \E error \in ServiceErrors : Catch(error)
  /\ UNCHANGED <<fullText, sReturn, requests, received, onChunkArgs,
                 attemptStart, delivered, streamConfig, sent, otherThanStream>>

\* one turn of the for await loop
StreamChunk ==
  /\ sPc = "streaming"
  /\ delivered < MaxChunks
  /\ delivered' = delivered + 1
  /\ \E chunkText \in ChunkTexts :
       /\ received' = Append(received, chunkText)
       /\ IF chunkText # ""
          THEN /\ fullText' = Accumulate(fullText, chunkText)
               /\ onChunkArgs' = Append(onChunkArgs, fullText')
          ELSE UNCHANGED <<fullText, onChunkArgs>>
  /\ UNCHANGED <<sPc, attempt, sReturn, sError, requests, attemptStart, waits,
                 failures, streamConfig, sent, otherThanStream>>

\* the stream is exhausted: return fullText
StreamEnds ==
  /\ sPc = "streaming"
  /\ sPc' = "returned"
  /\ sReturn' = fullText
  /\ UNCHANGED <<attempt, fullText, sError, requests, received, onChunkArgs,
                 attemptStart, waits, failures, delivered, streamConfig, sent,
                 otherThanStream>>

\* the stream fails between two chunks
StreamFails ==
  /\ sPc = "streaming"
  /\ \E error \in ServiceErrors : Catch(error)
  /\ UNCHANGED <<fullText, sReturn, requests, received, onChunkArgs,
                 attemptStart, delivered, streamConfig, sent, otherThanStream>>

\* await wait(delayTime) is over: back to the loop head
WaitOver ==
  /\ sPc = "waiting"
  /\ LoopHead
  /\ UNCHANGED <<attempt, fullText, sReturn, received, onChunkArgs,
                 attemptStart, waits, failures, delivered, streamConfig,
                 otherThanStream>>

\* thinkingBudget values of the controls' slider
ThinkingBudgets == {1024, 8192}

\* streamAnalysis is about to be called with the config of the controls
InitStream ==
  /\ ResolverInit
  /\ ExtractInit
  /\ AppInit
  /\ sPc = "idle"
  /\ attempt = 0
  /\ fullText = ""
  /\ sReturn = ""
  /\ sError = NoError
  /\ requests = 0
  /\ received = <<>>
  /\ onChunkArgs = <<>>
  /\ attemptStart = 0
  /\ waits = <<>>
  /\ failures = <<>>
  /\ delivered = 0
  /\ sent = <<>>
  /\ \/ \* the config as constructed: no control touched
        /\ selected = "FLASH_2_0"
        /\ config = ConfigOf("FLASH_2_0", 8192)
     \/ \* an option was clicked; the budget slider, shown from then on, may
        \* have been moved
        /\ selected \in DOMAIN ModelType
        /\ \E budget \in ThinkingBudgets : config = ConfigOf(selected, budget)

NextStream ==
  \/ StreamCall
  \/ RequestResolves
  \/ RequestRejects
  \/ StreamChunk
  \/ StreamEnds
  \/ StreamFails
  \/ WaitOver

SpecStream == InitStream /\ [][NextStream]_vars

\* Every request settles (it resolves with a stream or rejects), every stream
\* settles (it delivers a chunk, ends or fails, and delivers finitely many
\* chunks), and every wait is over after its delay.
SpecStreamLive ==
  /\ InitStream
  /\ [][NextStream]_vars
  /\ WF_vars(RequestResolves \/ RequestRejects)
  /\ WF_vars(StreamChunk \/ StreamEnds \/ StreamFails)
  /\ WF_vars(WaitOver)

(***************************************************************************)
(* analyzeVillageMap, in services/geminiService.ts and in the service      *)
(* inlined after the map analyzer's App.                                   *)
(***************************************************************************)
\* MOCK_DATA of services/geminiService.ts
MOCK_DATA_geminiService ==
  [partitions |-> <<
     [villageName |-> "Rampur Village", partitionId |-> "V05-C1",
      surveyNumbers |-> <<"12/1", "12/2", "14/A", "15", "101">>],
     [villageName |-> "Rampur Village", partitionId |-> "V05-C2",
      surveyNumbers |-> <<"16", "17/1", "17/2", "18">>],
     [villageName |-> "Rampur Village", partitionId |-> "V05-C6",
      surveyNumbers |-> <<"12/3", "12/4", "101", "19/B">>],
     [villageName |-> "Rampur Village", partitionId |-> "V05-C7",
      surveyNumbers |-> <<"20", "21", "22/A", "12/3">>] >>]

\* a || b on strings
OrElse(a, b) == IF a # "" THEN a ELSE b

\* applyOverrides: on a copy of data, every partition takes the manual
\* village name and partition id that are given
applyOverrides(data, villageName_, partitionId_) ==
  IF villageName_ # "" \/ partitionId_ # ""
  THEN [partitions |->
          [i \in 1..Len(data.partitions) |->
             [f \in DOMAIN data.partitions[i] |->
                IF f = "villageName"
                  THEN OrElse(villageName_, data.partitions[i].villageName)
                ELSE IF f = "partitionId"
                  THEN OrElse(partitionId_, data.partitions[i].partitionId)
                ELSE data.partitions[i][f]]]]
  ELSE data

Resolved(value) == [state |-> "resolved", value |-> value, reason |-> ""]
Rejected(reason) ==
  [state |-> "rejected", value |-> [partitions |-> <<>>], reason |-> reason]

\* what the model call and the decoding of its answer come to
ServiceOutcomes == {"ok", "readError", "requestError", "noText", "badJson"}

\* the batches a well-formed answer decodes to
WellFormedValues ==
  {[partitions |-> <<>>],
   [partitions |-> <<[villageName |-> "Unknown", partitionId |-> "P1",
                      surveyNumbers |-> <<"101">>]>>],
   [partitions |-> <<[villageName |-> "Rampur Village", partitionId |-> "P1",
                      surveyNumbers |-> <<"101", "12/3">>],
                     [villageName |-> "Rampur Village", partitionId |-> "P2",
                      surveyNumbers |-> <<"12/3">>]>>]}

\* JSON.parse("null"): a value no property of which can be read (written as
\* a record, as the objects are)
JsonNull == [null |-> TRUE]

\* an object that has no property partitions
NoPartitionsObject == [error |-> "No partitions found"]

\* what JSON.parse(text) returns, cast to AnalysisResult unchecked: a
\* well-formed batch, null, or an object without partitions
ServiceValues == WellFormedValues \cup {JsonNull, NoPartitionsObject}

\* value is null: reading value.partitions throws a TypeError
IsNull(value) == DOMAIN value = {"null"}

\* value.partitions is undefined
PartitionsUndefined(value) == "partitions" \notin DOMAIN value

\* analyzeVillageMap of services/geminiService.ts: how its promise settles
analyzeVillageMap(file, key, villageName_, partitionId_, service) ==
  IF ~file
    THEN Resolved(applyOverrides(MOCK_DATA_geminiService,
                                 villageName_, partitionId_))
  ELSE IF key = ""
    THEN Resolved(applyOverrides(MOCK_DATA_geminiService,
                                 villageName_, partitionId_))
  ELSE IF service.outcome = "ok"
    THEN Resolved(service.value)
  ELSE \* catch: fall back to the mock data
       Resolved(applyOverrides(MOCK_DATA_geminiService,
                               villageName_, partitionId_))

\* variant: deepCopy is data itself
deepCopy_Alias(h, ref) == [heap |-> h, ref |-> ref]

\* JSON.parse(JSON.stringify(data)): the text of the AnalysisResult at
\* address ref is parsed into new objects
deepCopy(h, ref) == Store(h, ResultAt(h, ref))

\* deepCopy.partitions.map(p => ({ ...p, villageName: ..., partitionId: ... }))
\* from its i-th element on: each object literal is a new object that keeps
\* the surveyNumbers array of p; map returns a new array
RECURSIVE MapOverrides(_, _, _, _, _, _)
MapOverrides(h, arr, villageName_, partitionId_, i, out) ==
  IF i > Len(arr) THEN New(h, out)
  ELSE LET p == h[arr[i]]
           made == New(h, [f \in (DOMAIN p) \cup {"villageName", "partitionId"} |->
                             IF f = "villageName"
                               THEN OrElse(villageName_, p.villageName)
                             ELSE IF f = "partitionId"
                               THEN OrElse(partitionId_, p.partitionId)
                             ELSE p[f]])
       IN  MapOverrides(made.heap, arr, villageName_, partitionId_, i + 1,
                        Append(out, made.ref))

\* applyOverrides called with the AnalysisResult at address ref: the heap it
\* leaves and the address of the object it returns
applyOverridesAt(h, ref, villageName_, partitionId_) ==
  LET copy == deepCopy(h, ref)
  IN  IF villageName_ # "" \/ partitionId_ # ""
      THEN LET mapped == MapOverrides(copy.heap, copy.heap[copy.heap[copy.ref].partitions],
                                      villageName_, partitionId_, 1, <<>>)
           IN  [heap |-> [mapped.heap EXCEPT ![copy.ref].partitions = mapped.ref],
                ref |-> copy.ref]
      ELSE copy

\* analyzeVillageMap of the inlined service: how its promise settles
analyzeVillageMap_Inlined(file, key, villageName_, partitionId_, service) ==
  IF key = ""
    THEN Resolved(MOCK_DATA)
  ELSE IF file /\ service.outcome = "ok"
    THEN Resolved(service.value)
  ELSE \* catch: throw new Error("Failed to analyze map")
       Rejected("Failed to analyze map")

InitExtract ==
  /\ ResolverInit
  /\ StreamInit
  /\ AppInit
  /\ xPromise = Pending
  /\ mockData = [partitions |-> <<>>]
  /\ xLog = <<>>
  /\ xPc = "idle"
  /\ xResult = [partitions |-> <<>>]
  /\ xPending = <<>>
  /\ xHeap = <<>>
  /\ \E variant \in {"service", "inlined"}, file \in BOOLEAN,
        key \in {"", "key"},
        villageName_ \in {"", "Sitapur"}, partitionId_ \in {"", "V09-C2"},
        outcome \in ServiceOutcomes, value \in ServiceValues :
       /\ outcome # "ok" => value = [partitions |-> <<>>]
       /\ xArgs = [variant |-> variant, file |-> file, apiKey |-> key,
                   manualVillageName |-> villageName_,
                   manualPartitionId |-> partitionId_,
                   service |-> [outcome |-> outcome, value |-> value]]

\* the call of analyzeVillageMap of services/geminiService.ts, up to its
\* return to the caller: with no file or no key the result is computed and a
\* timer is set; otherwise the function awaits fileToGenerativePart
AnalyzeVillageMap ==
  /\ xArgs.variant = "service"
  /\ xPc = "idle"
  /\ IF ~xArgs.file \/ xArgs.apiKey = ""
     THEN /\ xResult' = applyOverrides(MOCK_DATA_geminiService,
                                       xArgs.manualVillageName,
                                       xArgs.manualPartitionId)
          /\ xPc' = "timer"
     ELSE /\ xPc' = "reading"
          /\ UNCHANGED xResult
  /\ UNCHANGED <<xArgs, xPromise, mockData, xLog, xPending, xHeap,
                 otherThanExtract>>

\* the call of the inlined analyzeVillageMap, up to its return to the caller
AnalyzeVillageMapInlined ==
  /\ xArgs.variant = "inlined"
  /\ xPc = "idle"
  /\ IF xArgs.apiKey = ""
     THEN /\ xResult' = MOCK_DATA
          /\ xPc' = "timer"
     ELSE /\ xPc' = "reading"
          /\ UNCHANGED xResult
  /\ UNCHANGED <<xArgs, xPromise, mockData, xLog, xPending, xHeap,
                 otherThanExtract>>

\* the setTimeout callback: resolve(result)
ExtractTimerFires ==
  /\ xPc = "timer"
  /\ xPromise' = Resolved(xResult)
  /\ xPc' = "done"
  /\ UNCHANGED <<xArgs, mockData, xLog, xResult, xPending, xHeap,
                 otherThanExtract>>

\* the promise of fileToGenerativePart settles: the function goes on to the
\* request, or to its catch block
ExtractFileRead ==
  /\ xPc = "reading"
  /\ IF xArgs.variant = "service"
     THEN IF xArgs.service.outcome = "readError"
          THEN /\ xPromise' = Resolved(applyOverrides(MOCK_DATA_geminiService,
                                                      xArgs.manualVillageName,
                                                      xArgs.manualPartitionId))
               /\ xPc' = "done"
          ELSE /\ xPc' = "requesting"
               /\ UNCHANGED xPromise
     ELSE IF ~xArgs.file \/ xArgs.service.outcome = "readError"
          THEN /\ xPromise' = Rejected("Failed to analyze map")
               /\ xPc' = "done"
          ELSE /\ xPc' = "requesting"
               /\ UNCHANGED xPromise
  /\ UNCHANGED <<xArgs, mockData, xLog, xResult, xPending, xHeap,
                 otherThanExtract>>

\* the promise of generateContent settles: the service function decodes the
\* answer or falls back; the inlined one goes on to await result.response
ExtractRequestAnswers ==
  /\ xPc = "requesting"
  /\ IF xArgs.variant = "service"
     THEN /\ xPromise' =
               IF xArgs.service.outcome = "ok"
               THEN Resolved(xArgs.service.value)
               ELSE Resolved(applyOverrides(MOCK_DATA_geminiService,
                                            xArgs.manualVillageName,
                                            xArgs.manualPartitionId))
          /\ xPc' = "done"
     ELSE IF xArgs.service.outcome = "requestError"
          THEN /\ xPromise' = Rejected("Failed to analyze map")
               /\ xPc' = "done"
          ELSE /\ xPc' = "responding"
               /\ UNCHANGED xPromise
  /\ UNCHANGED <<xArgs, mockData, xLog, xResult, xPending, xHeap,
                 otherThanExtract>>

\* inlined: result.response is there; response.text() is decoded
ExtractResponseReady ==
  /\ xPc = "responding"
  /\ xPromise' = IF xArgs.service.outcome = "ok"
                 THEN Resolved(xArgs.service.value)
                 ELSE Rejected("Failed to analyze map")
  /\ xPc' = "done"
  /\ UNCHANGED <<xArgs, mockData, xLog, xResult, xPending, xHeap,
                 otherThanExtract>>

NextExtract ==
  \/ AnalyzeVillageMap
  \/ AnalyzeVillageMapInlined
  \/ ExtractTimerFires
  \/ ExtractFileRead
  \/ ExtractRequestAnswers
  \/ ExtractResponseReady

SpecExtract == InitExtract /\ [][NextExtract]_vars

\* bound on the calls made to the module during one life of the process
MaxCalls == 3

\* the address of the object that MOCK_DATA refers to
MOCK_DATA_ref == 1

\* the module services/geminiService.ts has been loaded
InitDemo ==
  /\ ResolverInit
  /\ StreamInit
  /\ AppInit
  /\ xArgs = [variant |-> "service", file |-> FALSE, apiKey |-> "",
              manualVillageName |-> "", manualPartitionId |-> "",
              service |-> [outcome |-> "none", value |-> [partitions |-> <<>>]]]
  /\ xPromise = Pending
  /\ xPc = "idle"
  /\ xResult = [partitions |-> <<>>]
  /\ xHeap = Store(<<>>, MOCK_DATA_geminiService).heap
  /\ mockData = MOCK_DATA_geminiService
  /\ xLog = <<>>
  /\ xPending = <<>>

\* Array.prototype.filter((_, j) => j !== k): the sequence without its k-th element
RemoveAt(seq, k) == SubSeq(seq, 1, k - 1) \o SubSeq(seq, k + 1, Len(seq))

\* a call in flight: the function called, its arguments, where it stands,
\* the delay of its timer and the address of the result that the timer
\* callback holds (0 when it holds none)
InFlight(fn, villageName_, partitionId_, at, delay, result) ==
  [fn |-> fn, manualVillageName |-> villageName_,
   manualPartitionId |-> partitionId_, pc |-> at, delay |-> delay,
   result |-> result]

\* the record of a settled call
Logged(fn, call, value) ==
  [fn |-> fn, manualVillageName |-> call.manualVillageName,
   manualPartitionId |-> call.manualPartitionId, value |-> value]

\* a call of getSampleData(manualVillageName, manualPartitionId): the result
\* is computed at the call and an 800 ms timer is set
GetSampleData ==
  /\ Len(xLog) + Len(xPending) < MaxCalls
  /\ \E villageName_ \in {"", "Sitapur"}, partitionId_ \in {"", "V09-C2"} :
       LET made == applyOverridesAt(xHeap, MOCK_DATA_ref, villageName_, partitionId_)
       IN  /\ xHeap' = made.heap
           /\ mockData' = ResultAt(made.heap, MOCK_DATA_ref)
           /\ xPending' = Append(xPending,
                            InFlight("getSampleData", villageName_, partitionId_,
                                     "timer", 800, made.ref))
  /\ UNCHANGED <<xArgs, xPromise, xLog, xPc, xResult, otherThanExtract>>

\* a call of analyzeVillageMap(file, manualVillageName, manualPartitionId), up
\* to its return to the caller
AnalyzeVillageMapCall ==
  /\ Len(xLog) + Len(xPending) < MaxCalls
  /\ \E file \in BOOLEAN, key \in {"", "key"},
        villageName_ \in {"", "Sitapur"}, partitionId_ \in {"", "V09-C2"} :
       IF ~file \/ key = ""
       THEN LET made == applyOverridesAt(xHeap, MOCK_DATA_ref, villageName_,
                                         partitionId_)
            IN  /\ xHeap' = made.heap
                /\ mockData' = ResultAt(made.heap, MOCK_DATA_ref)
                /\ xPending' = Append(xPending,
                                 InFlight("analyzeVillageMap", villageName_,
                                          partitionId_, "timer",
                                          IF ~file THEN 1500 ELSE 2000, made.ref))
       ELSE /\ xPending' = Append(xPending,
                             InFlight("analyzeVillageMap", villageName_,
                                      partitionId_, "reading", 0, 0))
            /\ UNCHANGED <<mockData, xHeap>>
  /\ UNCHANGED <<xArgs, xPromise, xLog, xPc, xResult, otherThanExtract>>

\* the timer of a call in flight fires: resolve(result).  A timer set earlier
\* with a delay that is not longer fires first.
TimerFires ==
  \E i \in 1..Len(xPending) :
    /\ xPending[i].pc = "timer"
    /\ \A j \in 1..(i - 1) :
         xPending[j].pc = "timer" => xPending[j].delay > xPending[i].delay
    /\ xLog' = Append(xLog, Logged(xPending[i].fn, xPending[i],
                                   ResultAt(xHeap, xPending[i].result)))
    /\ xPending' = RemoveAt(xPending, i)
    /\ UNCHANGED <<xArgs, xPromise, mockData, xHeap, xPc, xResult, otherThanExtract>>

\* the catch block of a call in flight: applyOverrides(MOCK_DATA, ...) is
\* returned
FallsBack(i) ==
  LET made == applyOverridesAt(xHeap, MOCK_DATA_ref, xPending[i].manualVillageName,
                               xPending[i].manualPartitionId)
  IN  /\ xHeap' = made.heap
      /\ mockData' = ResultAt(made.heap, MOCK_DATA_ref)
      /\ xLog' = Append(xLog, Logged("analyzeVillageMap", xPending[i],
                                     ResultAt(made.heap, made.ref)))
      /\ xPending' = RemoveAt(xPending, i)

\* the promise of fileToGenerativePart of a call in flight settles
FileRead ==
  \E i \in 1..Len(xPending), ok \in BOOLEAN :
    /\ xPending[i].pc = "reading"
    /\ IF ok
       THEN /\ xPending' = [xPending EXCEPT ![i].pc = "requesting"]
            /\ UNCHANGED <<xLog, mockData, xHeap>>
       ELSE FallsBack(i)
    /\ UNCHANGED <<xArgs, xPromise, xPc, xResult, otherThanExtract>>

\* the request of a call in flight is answered
RequestAnswers ==
  \E i \in 1..Len(xPending),
     outcome \in ServiceOutcomes \ {"readError"}, value \in ServiceValues :
    /\ xPending[i].pc = "requesting"
    /\ outcome # "ok" => value = [partitions |-> <<>>]
    /\ IF outcome = "ok"
       THEN /\ xLog' = Append(xLog, Logged("service", xPending[i], value))
            /\ xPending' = RemoveAt(xPending, i)
            /\ UNCHANGED <<mockData, xHeap>>
       ELSE FallsBack(i)
    /\ UNCHANGED <<xArgs, xPromise, xPc, xResult, otherThanExtract>>

NextDemo ==
  \/ GetSampleData
  \/ AnalyzeVillageMapCall
  \/ TimerFires
  \/ FileRead
  \/ RequestAnswers

SpecDemo == InitDemo /\ [][NextDemo]_vars

(***************************************************************************)
(* App of the map analyzer: handleAnalyze, handleSampleData, downloadCSV.  *)
(***************************************************************************)
\* A string that the program takes apart character by character is modelled
\* as the sequence of its UTF-16 code units.  The characters U+0020 to U+005F
\* of Basic Latin, in the order of their code units
PrintableUpper ==
  " !\"#$%&'()*+,-./0123456789:;<=>?@ABCDEFGHIJKLMNOPQRSTUVWXYZ[\\]^_"

\* the characters U+0061 to U+007E of Basic Latin
PrintableLower ==
  "abcdefghijklmnopqrstuvwxyz{|}~"

\* the characters U+00A1 to U+00FF of Latin-1 Supplement
Latin1 ==
  "¡¢£¤¥¦§¨©ª«¬­®¯°±²³´µ¶·¸¹º»¼½¾¿ÀÁÂÃÄÅÆÇÈÉÊËÌÍÎÏÐÑÒÓÔÕÖ×ØÙÚÛÜÝÞßàáâãäåæçèéêëìíîïðñòóôõö÷øùúûüýþÿ"

\* the characters of the three ranges and the Greek capital mu U+039C, each
\* as a string of length one
Characters ==
  {SubSeq(PrintableUpper, i, i) : i \in 1..Len(PrintableUpper)}
    \cup {SubSeq(PrintableLower, i, i) : i \in 1..Len(PrintableLower)}
    \cup {SubSeq(Latin1, i, i) : i \in 1..Len(Latin1)}
    \cup {"Μ"}

\* String.prototype.charCodeAt: the code unit of each character
charCode ==
  [c \in Characters |->
     CASE IndexOf(PrintableUpper, c) > 0 -> 31 + IndexOf(PrintableUpper, c)
       [] IndexOf(PrintableLower, c) > 0 -> 96 + IndexOf(PrintableLower, c)
       [] IndexOf(Latin1, c) > 0 -> 160 + IndexOf(Latin1, c)
       [] c = "Μ" -> 924]

\* the code unit of a character
UnitOf(c) == charCode[c]

\* the character of a code unit, for the code units UnitOf gives
CharOf(u) ==
  CASE u \in 32..95 -> SubSeq(PrintableUpper, u - 31, u - 31)
    [] u \in 97..126 -> SubSeq(PrintableLower, u - 96, u - 96)
    [] u \in 161..255 -> SubSeq(Latin1, u - 160, u - 160)
    [] u = 924 -> "Μ"

\* the code units of a string
Units(str) == [k \in 1..Len(str) |-> UnitOf(SubSeq(str, k, k))]

RECURSIVE TextFrom(_, _)
TextFrom(units, k) ==
  IF k > Len(units) THEN ""
  ELSE CharOf(units[k]) \o TextFrom(units, k + 1)

\* the string of a sequence of code units
Text(units) == TextFrom(units, 1)

RECURSIVE LastIndexOfFrom(_, _, _)
LastIndexOfFrom(units, u, k) ==
  IF k = 0 THEN 0
  ELSE IF units[k] = u THEN k
  ELSE LastIndexOfFrom(units, u, k - 1)

\* the last position of the code unit u in units, 0 when it has none
LastIndexOf(units, u) == LastIndexOfFrom(units, u, Len(units))

\* name.replace(/\.[^/.]+$/, ""): the last dot (46) and what follows it go,
\* when something follows it and holds no slash (47)
StripExtension(name) ==
  LET d == LastIndexOf(name, 46)
  IN  IF d > 0 /\ d < Len(name) /\ \A j \in (d + 1)..Len(name) : name[j] # 47
      THEN SubSeq(name, 1, d - 1)
      ELSE name

\* the upper case of one code unit of Basic Latin or Latin-1 Supplement
\* (0..255), as String.prototype.toUpperCase gives it by the Unicode case
\* mapping: a-z and the letters U+00E0 to U+00FE but the division sign lie 32
\* above their capital; the sharp s becomes "SS"; the capitals of the micro
\* sign and of y with diaeresis lie outside Latin-1, at U+039C and U+0178;
\* every other code unit stays
UpperOf(u) ==
  LET small == (97..122) \cup ((224..254) \ {247})
  IN  CASE u \in small -> <<u - 32>>
        [] u = 223 -> <<83, 83>>
        [] u = 181 -> <<924>>
        [] u = 255 -> <<376>>
        [] u \in (0..255) \ (small \cup {181, 223, 255}) -> <<u>>

RECURSIVE toUpperCaseFrom(_, _)
toUpperCaseFrom(units, k) ==
  IF k > Len(units) THEN <<>>
  ELSE UpperOf(units[k]) \o toUpperCaseFrom(units, k + 1)

\* String.prototype.toUpperCase, on code units
toUpperCase(units) == toUpperCaseFrom(units, 1)

\* the partition id handleAnalyze passes for a file, as code units
effectivePartitionId(fileName) ==
  IF partitionSource = "file"
  THEN toUpperCase(StripExtension(fileName))
  ELSE Units(manualPartitionId)

\* the lists of files the user selects
FileLists ==
  {<<>>, <<"µ-straße-été.png">>, <<"noext", "Map.2.JPG">>}

\* the names that files can hold: those of FileLists and the name that
\* handleSampleData stores
FileNames ==
  UNION {{l[k] : k \in 1..Len(l)} : l \in FileLists} \cup {"Sample_Map.jpg"}

\* the element undefined of an array of partitions: it has no property
\* (written as a record, as the partitions are)
undefinedPartition == [undefined |-> TRUE]

\* flatMap from the k-th element on: an array that the callback returns is
\* flattened into the result, any other value (r.partitions undefined) is
\* added as one element
RECURSIVE flatMapFrom(_, _)
flatMapFrom(resultsList, k) ==
  IF k > Len(resultsList) THEN <<>>
  ELSE (IF PartitionsUndefined(resultsList[k]) THEN <<undefinedPartition>>
        ELSE resultsList[k].partitions)
       \o flatMapFrom(resultsList, k + 1)

\* the callback r => r.partitions throws: an r is null
flatMapThrows(resultsList) ==
  \E k \in 1..Len(resultsList) : IsNull(resultsList[k])

\* processOverlaps throws: partition.surveyNumbers.forEach (line 61) reads
\* forEach of undefined, or surveyNumbers of undefined, in the first pass
\* over the partitions
processOverlapsThrows(data) ==
  \E i \in 1..Len(data.partitions) :
    "surveyNumbers" \notin DOMAIN data.partitions[i]

\* variant: the batches are concatenated last first
allPartitions_Reversed(resultsList) ==
  flatMapFrom([k \in 1..Len(resultsList) |->
                 resultsList[Len(resultsList) + 1 - k]], 1)

\* resultsList.flatMap(r => r.partitions)
allPartitions(resultsList) == flatMapFrom(resultsList, 1)

\* the value Promise.all fulfils with: the promises' values in the order of
\* the promises
PromiseAllValue(cs) == [k \in 1..Len(cs) |-> cs[k].promise.value]

\* how a call of analyzeVillageMap settles
Settlement(args, service) ==
  IF serviceModule = "service"
  THEN analyzeVillageMap(TRUE, VITE_API_KEY, args.manualVillageName,
                         args.partitionId, service)
  ELSE analyzeVillageMap_Inlined(TRUE, VITE_API_KEY, args.manualVillageName,
                                 args.partitionId, service)

\* getSampleData of services/geminiService.ts, and of the inlined service
getSampleData(villageName_, partitionId_) ==
  IF serviceModule = "service"
  THEN applyOverrides(MOCK_DATA_geminiService, villageName_, partitionId_)
  ELSE MOCK_DATA

\* manualVillageName, manualPartitionId and partitionSource: as constructed
\* (lines 92-94), and a setting that takes the handlers' other branches
ManualConfigs == {<<"", "", "manual">>, <<"Sitapur", "V09-C2", "file">>}

\* App as constructed.  The handlers read manualVillageName, manualPartitionId
\* and partitionSource; the component declares their setters (lines 92-94)
\* and its rendered tree has no control that calls them, so each run keeps
\* the values it starts with.
InitApp ==
  /\ ResolverInit
  /\ StreamInit
  /\ ExtractInit
  /\ AppConstructed
  /\ mounted = "part_001"
  /\ ops = <<>>
  /\ \E manual \in ManualConfigs :
       /\ manualVillageName = manual[1]
       /\ manualPartitionId = manual[2]
       /\ partitionSource = manual[3]
  /\ VITE_API_KEY \in {"", "key"}
  /\ serviceModule \in {"service", "inlined"}

appConfig == <<manualVillageName, manualPartitionId, partitionSource,
               VITE_API_KEY, serviceModule, mounted>>

\* variant: the partitions are published before the resolver runs on them
tryBlock_PublishFirst ==
  <<"flatMap", "setResults", "processOverlaps", "setResults">>

\* the statements of handleAnalyze's try block that follow its await
tryBlock == <<"flatMap", "processOverlaps", "setResults">>

\* the statements of handleSampleData's try block that follow its await
sampleTryBlock == <<"processOverlaps", "setResults", "setFiles">>

sampleFileName == "Sample_Map"

\* one statement of a try block on the frame f: value is the local that the
\* statement before it computed; results and files are the component's
\* state, runs and arg record the calls of processOverlaps, threw that the
\* statement threw
Statement(stmt, f) ==
  CASE stmt = "flatMap" ->
         IF flatMapThrows(f.resultsList) THEN [f EXCEPT !.threw = TRUE]
         ELSE [f EXCEPT !.value = allPartitions(f.resultsList)]
    [] stmt = "processOverlaps" ->
         LET rawData_ == [partitions |-> f.value]
         IN  IF processOverlapsThrows(rawData_)
             THEN [f EXCEPT !.runs = @ + 1, !.arg = rawData_, !.threw = TRUE]
             ELSE [f EXCEPT !.runs = @ + 1, !.arg = rawData_,
                            !.value = processOverlaps(rawData_)]
    [] stmt = "setResults" -> [f EXCEPT !.results = f.value]
    [] stmt = "setFiles" -> [f EXCEPT !.files = <<sampleFileName \o ".jpg">>]

\* the statements from the k-th on, up to the first that throws
RECURSIVE RunFrom(_, _, _)
RunFrom(stmts, k, f) ==
  IF k > Len(stmts) \/ f.threw THEN f
  ELSE RunFrom(stmts, k + 1, Statement(stmts[k], f))

\* a try block run from the component's state: resultsList is what
\* Promise.all fulfilled with, value the local in hand
RunTry(stmts, resultsList, value) ==
  RunFrom(stmts, 1, [resultsList |-> resultsList, value |-> value,
                     results |-> results, files |-> files,
                     runs |-> resolverRuns, arg |-> resolverArg,
                     threw |-> FALSE])

\* variant: no finally block
finallyIsAnalyzing_Missing(current) == current

\* finally { setIsAnalyzing(false) }
finallyIsAnalyzing(current) == FALSE

\* SimpleFileUpload's onFilesSelect: setFiles
OnFilesSelect ==
  /\ mounted = "part_001"
  /\ \E fs \in FileLists : files' = fs
  /\ UNCHANGED <<results, isAnalyzing, appError, appConfig, hPc, calls,
                 outOfOrder, resolverRuns, resolverArg, csvContent, otherThanApp>>

\* handleAnalyze up to its await: one call of analyzeVillageMap per file
HandleAnalyze ==
  /\ mounted = "part_001"
  /\ ~isAnalyzing
  /\ Len(files) # 0
  /\ isAnalyzing' = TRUE
  /\ appError' = null
  /\ calls' = [i \in 1..Len(files) |->
                 \* file.name is files[i], read as the name of FileNames it is
                 LET name == CHOOSE n \in FileNames : n = files[i]
                 IN  [args |-> [file |-> files[i],
                                manualVillageName |-> manualVillageName,
                                partitionId |-> Text(effectivePartitionId(Units(name)))],
                      promise |-> Pending]]
  /\ hPc' = "awaiting"
  /\ outOfOrder' = FALSE
  /\ resolverRuns' = 0
  /\ resolverArg' = [partitions |-> <<>>]
  /\ UNCHANGED <<files, results, appConfig, csvContent, otherThanApp>>

\* a call of analyzeVillageMap settles; Promise.all settles with the first
\* rejection or the last fulfilment, and handleAnalyze runs on from its await
CallSettles ==
  \E i \in 1..Len(calls), outcome \in ServiceOutcomes, value \in ServiceValues :
    /\ mounted = "part_001"
    /\ calls[i].promise.state = "pending"
    /\ outcome # "ok" => value = [partitions |-> <<>>]
    /\ LET p == Settlement(calls[i].args, [outcome |-> outcome, value |-> value])
           settled == [calls EXCEPT ![i].promise = p]
       IN  /\ calls' = settled
           /\ IF hPc # "awaiting"
              THEN UNCHANGED <<results, isAnalyzing, appError, hPc,
                               outOfOrder, resolverRuns, resolverArg>>
              ELSE /\ outOfOrder' =
                        (outOfOrder \/
                         \E j \in 1..(i - 1) : calls[j].promise.state = "pending")
                   /\ IF p.state = "rejected"
                      THEN \* the await throws: catch, then finally
                           /\ appError' = "Failed to analyze maps. Check console for details."
                           /\ isAnalyzing' = finallyIsAnalyzing(isAnalyzing)
                           /\ hPc' = "analyzed"
                           /\ UNCHANGED <<results, resolverRuns, resolverArg>>
                      ELSE IF \A k \in 1..Len(settled) :
                                 settled[k].promise.state = "resolved"
                      THEN \* the rest of the try block, catch when a
                           \* statement throws, then finally
                           LET f == RunTry(tryBlock, PromiseAllValue(settled), <<>>)
                           IN  /\ results' = f.results
                               /\ resolverRuns' = f.runs
                               /\ resolverArg' = f.arg
                               /\ appError' =
                                    IF f.threw
                                    THEN "Failed to analyze maps. Check console for details."
                                    ELSE appError
                               /\ isAnalyzing' = finallyIsAnalyzing(isAnalyzing)
                               /\ hPc' = "analyzed"
                      ELSE UNCHANGED <<results, isAnalyzing, appError, hPc,
                                       resolverRuns, resolverArg>>
    /\ UNCHANGED <<files, appConfig, csvContent, otherThanApp>>

\* handleSampleData up to its await
HandleSampleData ==
  /\ mounted = "part_001"
  /\ ~isAnalyzing
  /\ isAnalyzing' = TRUE
  /\ appError' = null
  /\ hPc' = "sample"
  /\ resolverRuns' = 0
  /\ resolverArg' = [partitions |-> <<>>]
  /\ UNCHANGED <<files, results, appConfig, calls, outOfOrder, csvContent,
                 otherThanApp>>

\* getSampleData resolves and handleSampleData runs on from its await: the
\* rest of the try block, catch when a statement throws, then finally
SampleDataResolves ==
  /\ hPc = "sample"
  /\ LET sampleRawData == getSampleData(manualVillageName,
                                        OrElse(manualPartitionId,
                                               Text(toUpperCase(Units(sampleFileName)))))
         f == RunTry(sampleTryBlock, <<>>, sampleRawData.partitions)
     IN  /\ results' = f.results
         /\ resolverRuns' = f.runs
         /\ resolverArg' = f.arg
         /\ files' = f.files
         /\ appError' = IF f.threw THEN "Failed to load sample data." ELSE appError
  /\ isAnalyzing' = finallyIsAnalyzing(isAnalyzing)
  /\ hPc' = "sampled"
  /\ UNCHANGED <<appConfig, calls, outOfOrder, csvContent, otherThanApp>>

\* handleAnalyze invoked with no files selected: it returns at once (hPc
\* records that it did)
HandleAnalyzeNoFiles ==
  /\ ~isAnalyzing
  /\ Len(files) = 0
  /\ hPc' = "returned"
  /\ UNCHANGED <<files, results, isAnalyzing, appError, appConfig, calls,
                 outOfOrder, resolverRuns, resolverArg, csvContent, otherThanApp>>

headers == <<"Village Name", "Partition Number", "Survey Numbers", "Remarks">>

\* the template literal of a row: the four values, each between double quotes
CsvRow(row) ==
  "\"" \o row.villageName \o "\",\"" \o row.partitionId \o "\",\""
       \o join(row.surveyNumbers, " ") \o "\",\"" \o row.remarks \o "\""

\* csvContent of downloadCSV
csvContentOf(rows) ==
  join(<<join(headers, ",")>> \o [i \in 1..Len(rows) |-> CsvRow(rows[i])], "\n")

\* downloadCSV: nothing with no results, else the file is offered
DownloadCSV ==
  /\ mounted = "part_001"
  /\ Len(results) # 0
  /\ csvContent' = csvContentOf(results)
  /\ UNCHANGED <<files, results, isAnalyzing, appError, appConfig, hPc, calls,
                 outOfOrder, resolverRuns, resolverArg, otherThanApp>>

\* the values a village name and a partition id take in an exported table
CsvVillages == {"Rampur", "Old \"Rampur\"", ""}
CsvIds == {"P1", "P 2"}
CsvSurveys == {<<>>, <<"101">>, <<"101", "12/3">>}
MaxRows == 2

\* the results of an analysis of at most MaxRows partitions, on display
InitCsv ==
  /\ ResolverInit
  /\ StreamInit
  /\ ExtractInit
  /\ files = <<>>
  /\ isAnalyzing = FALSE
  /\ appError = null
  /\ hPc = "analyzed"
  /\ calls = <<>>
  /\ outOfOrder = FALSE
  /\ resolverRuns = 1
  /\ csvContent = ""
  /\ manualVillageName = ""
  /\ manualPartitionId = ""
  /\ partitionSource = "manual"
  /\ VITE_API_KEY = "key"
  /\ serviceModule = "service"
  /\ mounted = "part_001"
  /\ ops = <<>>
  /\ \E n \in 0..MaxRows :
       \E v \in [1..n -> CsvVillages], p \in [1..n -> CsvIds], sn \in [1..n -> CsvSurveys] :
         /\ resolverArg = [partitions |->
                             [i \in 1..n |-> [villageName |-> v[i], partitionId |-> p[i],
                                              surveyNumbers |-> sn[i]]]]
         /\ results = processOverlaps(resolverArg)

NextCsv == DownloadCSV

SpecCsv == InitCsv /\ [][NextCsv]_vars

\* the handlers of App: downloadCSV reads results and writes no state of
\* the component (csvContent holds the text of the file it offers)
NextApp ==
  \/ OnFilesSelect
  \/ HandleAnalyze
  \/ CallSettles
  \/ HandleSampleData
  \/ SampleDataResolves
  \/ HandleAnalyzeNoFiles
  \/ DownloadCSV

SpecApp == InitApp /\ [][NextApp]_vars

\* the extraction calls and the sample request settle: a pending promise is
\* not left pending for ever
\* the promise part of CallSettles: a pending extraction call settles
CallSettled ==
  \E i \in 1..Len(calls), outcome \in ServiceOutcomes, value \in ServiceValues :
    /\ mounted = "part_001"
    /\ calls[i].promise.state = "pending"
    /\ outcome # "ok" => value = [partitions |-> <<>>]
    /\ calls' = [calls EXCEPT ![i].promise =
                   Settlement(calls[i].args, [outcome |-> outcome, value |-> value])]

\* the control part of SampleDataResolves: the sample request resolves
SampleSettled == mounted = "part_001" /\ hPc = "sample" /\ hPc' = "sampled"

\* A pending promise is not left pending for ever.  Under [][NextApp]_vars a
\* step that satisfies CallSettled is a CallSettles step and one that
\* satisfies SampleSettled is a SampleDataResolves step, and each is enabled
\* exactly when that action is: the two conditions are weak fairness of
\* CallSettles and of SampleDataResolves.
SpecAppLive ==
  InitApp /\ [][NextApp]_vars /\ WF_calls(CallSettled) /\ WF_hPc(SampleSettled)

(***************************************************************************)
(* App of src/src/App.tsx: handleFileChange, handleAnalyze, loadSample.    *)
(* "Load Sample Data" is never disabled, so runs overlap: ops holds the    *)
(* runs in flight; hPc records which run returned last ("analyzed",        *)
(* "failed", "sampled").                                                   *)
(***************************************************************************)
\* the runs in flight at a time
MaxInFlight == 2

\* the lists of files the user selects
TsxFileLists == {<<>>, <<"a.png">>, <<"a.png", "b.png">>}

\* the state that App.tsx does not have
otherThanTsx == <<manualVillageName, manualPartitionId, partitionSource,
                  VITE_API_KEY, serviceModule, mounted, calls, outOfOrder,
                  resolverRuns, resolverArg, csvContent,
                  resolverVars, streamVars, extractVars>>

InitTsx ==
  /\ ResolverInit
  /\ StreamInit
  /\ ExtractInit
  /\ AppConstructed
  /\ mounted = "App.tsx"
  /\ ops = <<>>
  /\ manualVillageName = ""
  /\ manualPartitionId = ""
  /\ partitionSource = "manual"
  /\ VITE_API_KEY \in {"", "key"}
  /\ serviceModule \in {"service", "inlined"}

\* handleFileChange: setFiles, setError(null)
HandleFileChange ==
  /\ mounted = "App.tsx"
  /\ \E fs \in TsxFileLists : files' = fs
  /\ appError' = null
  /\ UNCHANGED <<results, isAnalyzing, hPc, ops, otherThanTsx>>

\* handleAnalyze (App.tsx) up to its first await
TsxHandleAnalyze ==
  /\ mounted = "App.tsx"
  /\ ~isAnalyzing
  /\ Len(files) # 0
  /\ Len(ops) < MaxInFlight
  /\ isAnalyzing' = TRUE
  /\ appError' = null
  /\ ops' = Append(ops, [kind |-> "analyze", files |-> files, next |-> 1,
                         allResults |-> <<>>])
  /\ UNCHANGED <<files, results, hPc, otherThanTsx>>

\* the call of analyzeVillageMap(file) that a run of handleAnalyze awaits
\* settles, and the run goes on: to the next file, to setResults, or to catch
TsxCallSettles ==
  \E k \in 1..Len(ops), outcome \in ServiceOutcomes, value \in ServiceValues :
    /\ mounted = "App.tsx"
    /\ ops[k].kind = "analyze"
    /\ outcome # "ok" => value = [partitions |-> <<>>]
    /\ LET op == ops[k]
           p == Settlement([manualVillageName |-> "", partitionId |-> ""],
                           [outcome |-> outcome, value |-> value])
           \* allResults.push(...result.partitions)
           pushed == op.allResults \o p.value.partitions
       IN  IF \/ p.state = "rejected"
              \/ IsNull(p.value)
              \/ PartitionsUndefined(p.value)
           THEN \* the await throws, result.partitions throws on null, or
                \* the spread of undefined throws: catch, then finally
                /\ appError' = "Analysis failed. Please check your API Key and try again."
                /\ UNCHANGED results
                /\ isAnalyzing' = finallyIsAnalyzing(isAnalyzing)
                /\ hPc' = "failed"
                /\ ops' = RemoveAt(ops, k)
           ELSE IF op.next = Len(op.files)
           THEN /\ results' = pushed
                /\ isAnalyzing' = finallyIsAnalyzing(isAnalyzing)
                /\ hPc' = "analyzed"
                /\ ops' = RemoveAt(ops, k)
                /\ UNCHANGED appError
           ELSE /\ ops' = [ops EXCEPT ![k].next = op.next + 1,
                                      ![k].allResults = pushed]
                /\ UNCHANGED <<results, isAnalyzing, appError, hPc>>
    /\ UNCHANGED <<files, otherThanTsx>>

\* loadSample up to its await
LoadSample ==
  /\ mounted = "App.tsx"
  /\ Len(ops) < MaxInFlight
  /\ isAnalyzing' = TRUE
  /\ ops' = Append(ops, [kind |-> "sample", files |-> <<>>, next |-> 0,
                         allResults |-> <<>>])
  /\ UNCHANGED <<files, results, appError, hPc, otherThanTsx>>

\* getSampleData() resolves and loadSample runs on from its await
TsxSampleResolves ==
  \E k \in 1..Len(ops) :
    /\ mounted = "App.tsx"
    /\ ops[k].kind = "sample"
    /\ results' = getSampleData("", "").partitions
    /\ isAnalyzing' = FALSE
    /\ hPc' = "sampled"
    /\ ops' = RemoveAt(ops, k)
    /\ UNCHANGED <<files, appError, otherThanTsx>>

NextTsx ==
  \/ HandleFileChange
  \/ TsxHandleAnalyze
  \/ TsxCallSettles
  \/ LoadSample
  \/ TsxSampleResolves
  \/ HandleAnalyzeNoFiles

SpecTsx == InitTsx /\ [][NextTsx]_vars

\* either App
SpecApps == (InitApp \/ InitTsx) /\ [][NextApp \/ NextTsx]_vars

(***************************************************************************)
(* Vocabulary of the properties, over the input batch.                     *)
(***************************************************************************)
InParts == rawData.partitions

Range(seq) == {seq[k] : k \in 1..Len(seq)}

AllNumbers == UNION {Range(InParts[i].surveyNumbers) : i \in 1..Len(InParts)}

\* positions of the partitions whose list contains x
Holders(x) == {i \in 1..Len(InParts) : x \in Range(InParts[i].surveyNumbers)}

\* x appears in a partition other than the i-th
InOther(i, x) == Holders(x) \ {i} # {}

Count(seq, x) == Cardinality({k \in 1..Len(seq) : seq[k] = x})

\* ids of the partitions at the positions of S, in input order
IdsInOrder(S) ==
  LET F[i \in 0..Len(InParts)] ==
        IF i = 0 THEN <<>>
        ELSE IF i \in S THEN Append(F[i - 1], InParts[i].partitionId)
        ELSE F[i - 1]
  IN  F[Len(InParts)]

\* the remarks of the i-th output partition, read back entry by entry
Parsed(i) ==
  LET E == Entries(processed[i].remarks)
  IN  [k \in 1..Len(E) |->
         LET p == IndexOf(E[k], Arrow)
         IN  [text |-> E[k],
              arrow |-> p > 0,
              num |-> SubSeq(E[k], 1, p - 1),
              rhs |-> SubSeq(E[k], p + Len(Arrow), Len(E[k]))]]

ParsedAll == [i \in 1..Len(processed) |-> Parsed(i)]

\* the numbers of a parsed remarks, in entry order
Nums(P) == [k \in 1..Len(P) |-> P[k].num]

(***************************************************************************)
(* Properties of processOverlaps.                                          *)
(***************************************************************************)

\* C1: the output has the length of the input, and the i-th output partition
\* has exactly the fields of the i-th input partition plus remarks, with
\* villageName, partitionId and surveyNumbers (order and duplicates) unchanged.
C1_FramePreserved ==
  pc = "done" =>
    /\ Len(processed) = Len(InParts)
    /\ \A i \in 1..Len(InParts) :
         /\ DOMAIN processed[i] = (DOMAIN InParts[i]) \cup {"remarks"}
         /\ processed[i].villageName = InParts[i].villageName
         /\ processed[i].partitionId = InParts[i].partitionId
         /\ processed[i].surveyNumbers = InParts[i].surveyNumbers

\* a batch of partitions with different names, one of them with a repeated
\* number and an overlap annotation, has been processed
C1_Witness ==
  /\ pc = "done"
  /\ \E i, k \in 1..Len(InParts) :
       /\ InParts[i].villageName # InParts[k].villageName
       /\ Len(InParts[i].surveyNumbers) > Cardinality(Range(InParts[i].surveyNumbers))
       /\ processed[i].remarks # NoOverlaps

\* C2: a partition's remarks is the sentinel exactly when none of its survey
\* numbers appears in the list of another partition.
C2_SentinelIffNoSharedNumber ==
  pc = "done" =>
    \A i \in 1..Len(InParts) :
      (processed[i].remarks = NoOverlaps)
        <=> (\A x \in Range(InParts[i].surveyNumbers) : ~InOther(i, x))

\* C3: a number X held by exactly two partitions, with distinct ids P1 then
\* P2, yields the entry "X -> P1 / P2" in the remarks of both; and every
\* partition that holds a shared number has an entry for it, with one
\* right-hand side in all.
C3_PairEntryInBoth ==
  pc = "done" =>
    LET P == ParsedAll
        Texts(i) == {P[i][k].text : k \in 1..Len(P[i])}
    IN  /\ \A x \in AllNumbers : \A i, j \in Holders(x) :
             (/\ i < j
              /\ Holders(x) = {i, j}
              /\ InParts[i].partitionId # InParts[j].partitionId) =>
               LET e == x \o Arrow \o InParts[i].partitionId \o " / "
                          \o InParts[j].partitionId
               IN  e \in Texts(i) /\ e \in Texts(j)
        /\ \A x \in AllNumbers :
             Cardinality(Holders(x)) >= 2 =>
               /\ \A i \in Holders(x) : x \in Range(Nums(P[i]))
               /\ \A i, j \in Holders(x) :
                    \A k \in 1..Len(P[i]), h \in 1..Len(P[j]) :
                      (P[i][k].num = x /\ P[j][h].num = x)
                        => P[i][k].rhs = P[j][h].rhs

\* C4: a number held by three or more partitions, of pairwise distinct ids,
\* is annotated in each of them with the ids of exactly those partitions,
\* joined by " / " in input (first-seen) order.
C4_FirstSeenOrder ==
  pc = "done" =>
    LET P == ParsedAll
    IN  \A x \in AllNumbers :
          (/\ Cardinality(Holders(x)) >= 3
           /\ Cardinality({InParts[h].partitionId : h \in Holders(x)})
                = Cardinality(Holders(x))) =>
            \A i \in Holders(x) :
              /\ x \in Range(Nums(P[i]))
              /\ \A k \in 1..Len(P[i]) :
                   P[i][k].num = x
                     => P[i][k].rhs = join(IdsInOrder(Holders(x)), " / ")

\* C5: in every remarks entry the id list right of the arrow names each
\* partition id at most once.
C5_IdsDeduplicated ==
  pc = "done" =>
    LET P == ParsedAll
    IN  \A i \in 1..Len(P) : \A k \in 1..Len(P[i]) :
          LET ids == SplitStr(P[i][k].rhs, " / ")
          IN  Cardinality(Range(ids)) = Len(ids)

\* C6: a number is flagged only if the partitions holding it carry at least
\* two distinct ids; a number held by one partition alone is never flagged.
C6_FlaggedOnlyAcrossDistinctIds ==
  pc = "done" =>
    LET P == ParsedAll
    IN  \A i \in 1..Len(P) :
          /\ \A k \in 1..Len(P[i]) :
               Cardinality({InParts[h].partitionId : h \in Holders(P[i][k].num)}) >= 2
          /\ (\A x \in Range(InParts[i].surveyNumbers) : Holders(x) = {i})
               => processed[i].remarks = NoOverlaps

\* C7: the remarks of a partition that shares a number with another one is
\* the "; "-join of one entry per occurrence of a shared number, in the order
\* of the partition's own list, each of the form "<number> -> <ids>".
C7_EntriesInOwnOrder ==
  pc = "done" =>
    LET P == ParsedAll
    IN  \A i \in 1..Len(P) :
          LET shared == SelectSeq(InParts[i].surveyNumbers, LAMBDA x : InOther(i, x))
          IN  Len(shared) > 0 =>
                /\ processed[i].remarks
                     = join([k \in 1..Len(P[i]) |-> P[i][k].text], "; ")
                /\ Nums(P[i]) = shared
                /\ \A k \in 1..Len(P[i]) : P[i][k].arrow /\ Len(P[i][k].rhs) > 0

\* C8: a number occurring k times in a partition's own list and also in
\* another partition has k entries in that partition's remarks, all equal,
\* and the entries of the shared numbers follow the order of the own list.
C8_RepeatedNumberRepeatedEntry ==
  pc = "done" =>
    LET P == ParsedAll
    IN  \A i \in 1..Len(P) :
          LET own == InParts[i].surveyNumbers
              nums == Nums(P[i])
          IN  /\ SelectSeq(nums, LAMBDA x : InOther(i, x))
                   = SelectSeq(own, LAMBDA x : InOther(i, x))
              /\ \A x \in Range(own) :
                   InOther(i, x) =>
                     /\ Count(nums, x) = Count(own, x)
                     /\ \A k, h \in 1..Len(nums) :
                          (nums[k] = x /\ nums[h] = x)
                            => P[i][k].text = P[i][h].text

\* a partition holding a number twice, shared with another partition, has
\* been annotated with two entries for it
C8_Witness ==
  /\ pc = "done"
  /\ \E i \in 1..Len(InParts) : \E x \in Range(InParts[i].surveyNumbers) :
       /\ InOther(i, x)
       /\ Count(InParts[i].surveyNumbers, x) = 2
       /\ Count(Nums(Parsed(i)), x) = 2

\* C9 as stated: the documented scenario yields the documented remarks, the
\* entry for 101 first in P3.
C9_ScenarioAsStated ==
  (pc = "done" /\ rawData = Scenario) =>
    /\ processed[1].remarks = "101 → P1 / P3"
    /\ processed[2].remarks = "No overlaps detected"
    /\ processed[3].remarks = "101 → P1 / P3; 12/3 → P3 / P4"
    /\ processed[4].remarks = "12/3 → P3 / P4"

\* C9 amended: in the documented scenario the entries of P3 come in the order
\* of P3's own list, 12/3 before 101.
C9_Scenario ==
  (pc = "done" /\ rawData = Scenario) =>
    /\ Len(processed) = 4
    /\ processed[1].remarks = "101 → P1 / P3"
    /\ processed[2].remarks = "No overlaps detected"
    /\ processed[3].remarks = "12/3 → P3 / P4; 101 → P1 / P3"
    /\ processed[4].remarks = "12/3 → P3 / P4"

C9_Witness ==
  /\ pc = "done"
  /\ rawData = Scenario
  /\ Len(processed) = 4

\* C10: every call returns one annotated partition per input partition (none
\* for the empty batch), and a partition with an empty surveyNumbers list
\* gets the sentinel.
C10_TotalAndEmptyList ==
  pc = "done" =>
    /\ Len(processed) = Len(InParts)
    /\ \A i \in 1..Len(InParts) :
         /\ "remarks" \in DOMAIN processed[i]
         /\ processed[i].remarks # ""
         /\ InParts[i].surveyNumbers = <<>> => processed[i].remarks = NoOverlaps

\* a batch with an empty partition next to overlapping ones has been processed
C10_Witness ==
  /\ pc = "done"
  /\ \E i, k \in 1..Len(InParts) :
       /\ InParts[i].surveyNumbers = <<>>
       /\ processed[i].remarks = NoOverlaps
       /\ processed[k].remarks # NoOverlaps

\* C11: a second run of the resolver, on its own output or on that output
\* with the remarks removed, gives every partition the remarks of the first run.
C11_Idempotent ==
  pc \in {"again", "stripped"} =>
    /\ Len(second) = Len(processed)
    /\ \A i \in 1..Len(processed) : second[i].remarks = processed[i].remarks

\* the resolver has run again on an output that carries overlap annotations
C11_Witness ==
  /\ pc = "again"
  /\ Len(second) >= 2
  /\ \E i \in 1..Len(processed) :
       /\ processed[i].remarks # NoOverlaps
       /\ second[i].remarks = processed[i].remarks

\* the objects of the argument as the caller built them
ArgumentObjects == Store(<<>>, snapshot).heap

\* C12: a call writes to no object of its argument (the partition list and
\* every field of every input partition, remarks present or absent, read as
\* before), the array it returns and the partition objects in it are new
\* objects, one per input partition, and a later call on the same argument,
\* straight away or after a call on another argument, returns the same result
\* and leaves what the first call returned as it was.
C12_NoSideEffect ==
  pc # "idle" =>
    /\ rawData = snapshot
    /\ \A a \in 1..Len(ArgumentObjects) : heap[a] = ArgumentObjects[a]
    /\ outRefs > Len(ArgumentObjects)
    /\ Len(heap[outRefs]) = Len(snapshot.partitions)
    /\ \A i \in 1..Len(heap[outRefs]) :
         /\ heap[outRefs][i] > Len(ArgumentObjects)
         /\ \A j \in 1..(i - 1) : heap[outRefs][j] # heap[outRefs][i]
    /\ processed = processOverlaps(snapshot)
    /\ pc = "repeat" => second = processed

\* the resolver has been called on a batch without remarks in which it found
\* an overlap, then on its own output, then on the batch again
C12_Witness ==
  /\ pc = "repeat"
  /\ second = processed
  /\ Len(heap) > Len(ArgumentObjects) + 2 * (Len(InParts) + 1)
  /\ \E i \in 1..Len(InParts) :
       /\ "remarks" \notin DOMAIN InParts[i]
       /\ processed[i].remarks # NoOverlaps

(***************************************************************************)
(* Properties of streamAnalysis.                                           *)
(***************************************************************************)
\* a failure that is a rate-limit or quota signal: status 429, or a message
\* containing "429" or "Quota exceeded"
RateLimitSignal(error) ==
  \/ error.status = 429
  \/ IndexOf(error.message, "429") > 0
  \/ IndexOf(error.message, "Quota exceeded") > 0

\* the arguments of onChunk in the current attempt
AttemptArgs == SubSeq(onChunkArgs, attemptStart + 1, Len(onChunkArgs))

\* C13: a call makes at most 3 requests, each request after the first follows
\* a rate-limit failure of the one before, and a third rate-limit failure is
\* thrown to the caller without a fourth request.
C13_AtMostThreeAttempts ==
  /\ requests <= 3
  /\ Len(failures) >= requests - 1
  /\ \A k \in 1..(requests - 1) : RateLimitSignal(failures[k])
  /\ (Len(failures) = 3 /\ RateLimitSignal(failures[3]))
       => (sPc = "thrown" /\ sError = failures[3] /\ requests = 3)

\* three requests have failed with a rate-limit signal
C13_Witness ==
  /\ sPc = "thrown"
  /\ requests = 3
  /\ Len(failures) = 3
  /\ \A k \in 1..3 : RateLimitSignal(failures[k])
  /\ sError = failures[3]

\* C14: once a failure that is not a rate-limit signal is caught (on any
\* attempt, before or in the middle of the stream) the call has thrown that
\* error: no wait and no request follows it.
C14_OtherFailureThrownAtOnce ==
  (Len(failures) > 0 /\ ~RateLimitSignal(failures[Len(failures)])) =>
    /\ sPc = "thrown"
    /\ sError = failures[Len(failures)]
    /\ requests = Len(failures)
    /\ Len(waits) = Len(failures) - 1

\* after a rate-limited attempt, a stream that had delivered text failed with
\* another error, which was thrown
C14_Witness ==
  /\ sPc = "thrown"
  /\ Len(failures) = 2
  /\ RateLimitSignal(failures[1])
  /\ ~RateLimitSignal(failures[2])
  /\ sError = failures[2]
  /\ Len(AttemptArgs) > 0
  /\ Len(waits) = 1

\* C15: the wait after the n-th rate-limit failure is n * 5000 ms, and a call
\* whose every attempt was rate-limited has waited 5 s, then 10 s, then 15 s.
C15_WaitsFiveTenFifteen ==
  /\ \A n \in 1..Len(waits) : waits[n] = n * 5000
  /\ (/\ sPc = "thrown"
      /\ Len(failures) = requests
      /\ \A k \in 1..Len(failures) : RateLimitSignal(failures[k]))
       => waits = <<5000, 10000, 15000>>

\* C16: in an attempt, the k-th argument of onChunk is the concatenation of
\* the first k non-empty chunk texts received (a chunk without text triggers
\* no invocation), and the call returns the last argument of the successful
\* attempt, or "" if there was none.
C16_CumulativeText ==
  sPc \in {"streaming", "returned"} =>
    LET texts == SelectSeq(received, LAMBDA c : c # "")
        args == AttemptArgs
    IN  /\ Len(args) = Len(texts)
        /\ \A k \in 1..Len(args) : args[k] = join(SubSeq(texts, 1, k), "")
        /\ sPc = "returned" =>
             sReturn = IF Len(args) = 0 THEN "" ELSE args[Len(args)]

\* a stream of two chunks with text and one without has been returned
C16_Witness ==
  /\ sPc = "returned"
  /\ Len(received) = 3
  /\ Len(AttemptArgs) = 2
  /\ AttemptArgs[2] = AttemptArgs[1] \o "c"
  /\ sReturn = AttemptArgs[2]

(***************************************************************************)
(* Properties of analyzeVillageMap.                                        *)
(***************************************************************************)
\* the demo partitions with the manual village name and partition id applied
DemoWithOverrides(demo, villageName_, partitionId_) ==
  [i \in 1..Len(demo.partitions) |->
     [villageName |-> IF villageName_ # "" THEN villageName_
                      ELSE demo.partitions[i].villageName,
      partitionId |-> IF partitionId_ # "" THEN partitionId_
                      ELSE demo.partitions[i].partitionId,
      surveyNumbers |-> demo.partitions[i].surveyNumbers]]

\* the call is one in which extraction fails, no API key is configured, or no
\* file is given
NeedsFallback ==
  \/ ~xArgs.file
  \/ xArgs.apiKey = ""
  \/ xArgs.service.outcome # "ok"

\* C17: when extraction fails, no API key is configured or no file is given,
\* the promise of analyzeVillageMap resolves with the demo partitions, manual
\* overrides applied, and it never rejects.
C17_FallsBackToDemo ==
  xPromise.state # "pending" =>
    /\ xPromise.state = "resolved"
    /\ NeedsFallback =>
         xPromise.value.partitions
           = DemoWithOverrides(MOCK_DATA_geminiService,
                               xArgs.manualVillageName, xArgs.manualPartitionId)

(***************************************************************************)
(* Properties of handleAnalyze.                                            *)
(***************************************************************************)
AllResolved(cs) == \A k \in 1..Len(cs) : cs[k].promise.state = "resolved"

\* every call resolved with an object that has an array of partitions
AllWithPartitions(cs) ==
  /\ AllResolved(cs)
  /\ \A k \in 1..Len(cs) : "partitions" \in DOMAIN cs[k].promise.value

\* no call resolved with null
NoneNull(cs) == \A k \in 1..Len(cs) : ~IsNull(cs[k].promise.value)

RECURSIVE InFileOrderFrom(_, _)
InFileOrderFrom(cs, k) ==
  IF k > Len(cs) THEN <<>>
  ELSE cs[k].promise.value.partitions \o InFileOrderFrom(cs, k + 1)

\* the partitions the calls resolved with, call after call in the order of
\* the files (of calls that all resolved with partitions)
InFileOrder(cs) == InFileOrderFrom(cs, 1)

\* the step is the click that starts a run of handleAnalyze (part_001)
AnalyzeStarts == mounted = "part_001" /\ ~isAnalyzing /\ isAnalyzing' /\ hPc' = "awaiting"

\* C18: the click makes one extraction call per selected file, in the order
\* of the files, all outstanding; the resolver does not run while a call of
\* the batch is outstanding, runs at most once per click and never on a
\* partial batch; once every call has resolved (with an object) it has run
\* exactly once, and when the calls resolved with partitions its argument is
\* the concatenation of the calls' partitions in file order, whatever the
\* order the calls completed in, and results holds these partitions in that
\* order.
C18_ResolverOnceOnWholeBatch ==
  /\ [](/\ hPc = "awaiting" =>
            /\ resolverRuns = 0
            /\ \E k \in 1..Len(calls) : calls[k].promise.state = "pending"
        /\ hPc = "analyzed" =>
            /\ resolverRuns <= 1
            /\ resolverRuns = 1 => AllResolved(calls)
            /\ (AllResolved(calls) /\ NoneNull(calls)) => resolverRuns = 1
            /\ AllWithPartitions(calls) =>
                 /\ resolverArg.partitions = InFileOrder(calls)
                 /\ Len(results) = Len(InFileOrder(calls))
                 /\ \A i \in 1..Len(results) :
                      /\ results[i].villageName = InFileOrder(calls)[i].villageName
                      /\ results[i].partitionId = InFileOrder(calls)[i].partitionId
                      /\ results[i].surveyNumbers = InFileOrder(calls)[i].surveyNumbers)
  /\ [][ AnalyzeStarts =>
           /\ Len(calls') = Len(files)
           /\ \A i \in 1..Len(files) :
                /\ calls'[i].args.file = files[i]
                /\ calls'[i].promise.state = "pending" ]_vars

\* two files, the call for the second settled first, with different batches
C18_Witness ==
  /\ hPc = "analyzed"
  /\ Len(calls) = 2
  /\ Len(files) = 2
  /\ calls[1].args.file = files[1]
  /\ calls[2].args.file = files[2]
  /\ outOfOrder
  /\ AllWithPartitions(calls)
  /\ resolverRuns = 1
  /\ Len(calls[1].promise.value.partitions) = 1
  /\ Len(calls[2].promise.value.partitions) = 2
  /\ Len(results) = 3

(***************************************************************************)
(* Properties of downloadCSV: the file read back as CSV.                   *)
(***************************************************************************)
\* the position of the double quote that closes a quoted field whose content
\* starts at k (a doubled double quote stands for one inside the field),
\* 0 when the field is not closed
RECURSIVE ClosingQuote(_, _)
ClosingQuote(line, k) ==
  IF k > Len(line) THEN 0
  ELSE IF SubSeq(line, k, k) = "\""
    THEN IF k < Len(line) /\ SubSeq(line, k + 1, k + 1) = "\""
         THEN ClosingQuote(line, k + 2)
         ELSE k
  ELSE ClosingQuote(line, k + 1)

RECURSIVE Unescape(_)
Unescape(content) ==
  LET q == IndexOf(content, "\"\"")
  IN  IF q = 0 THEN content
      ELSE SubSeq(content, 1, q) \o Unescape(SubSeq(content, q + 2, Len(content)))

\* the values of a line of quoted fields from position k on; <<>> when the
\* line is not a sequence of quoted fields separated by commas
RECURSIVE QuotedFields(_, _)
QuotedFields(line, k) ==
  IF k > Len(line) \/ SubSeq(line, k, k) # "\"" THEN <<>>
  ELSE LET e == ClosingQuote(line, k + 1)
       IN  IF e = 0 THEN <<>>
           ELSE IF e = Len(line) THEN <<Unescape(SubSeq(line, k + 1, e - 1))>>
           ELSE IF SubSeq(line, e + 1, e + 1) # "," THEN <<>>
           ELSE LET rest == QuotedFields(line, e + 2)
                IN  IF rest = <<>> THEN <<>>
                    ELSE <<Unescape(SubSeq(line, k + 1, e - 1))>> \o rest

CsvLines == SplitStr(csvContent, "\n")

\* C19: downloadCSV produces nothing with empty results; otherwise the first
\* line is the header Village Name, Partition Number, Survey Numbers, Remarks
\* and there follows exactly one row per partition of results, in results
\* order, whose four quoted fields read back as the village name, the
\* partition id, the survey numbers joined by single spaces and the remarks:
\* a double quote inside a value does not end its field.
C19_CsvReadsBack ==
  /\ Len(results) = 0 => csvContent = ""
  /\ csvContent # "" =>
       /\ CsvLines[1] = "Village Name,Partition Number,Survey Numbers,Remarks"
       /\ Len(CsvLines) = Len(results) + 1
       /\ \A i \in 1..Len(results) :
            QuotedFields(CsvLines[i + 1], 1)
              = <<results[i].villageName, results[i].partitionId,
                  join(results[i].surveyNumbers, " "), results[i].remarks>>

(***************************************************************************)
(* Properties of handleSampleData.                                         *)
(***************************************************************************)
\* the remarks has an entry that reports num as shared by a and b
ReportedShared(remarks, num, a, b) ==
  \E k \in 1..Len(Entries(remarks)) :
    Entries(remarks)[k] = num \o Arrow \o a \o " / " \o b

\* C20: after "Use Sample Data" the remarks on display identify the demo
\* overlaps between distinct partitions: 101 is reported as shared by V05-C1
\* and V05-C6, 12/3 as shared by V05-C6 and V05-C7, and V05-C2 reports
\* "No overlaps detected"; so also when no manual partition id is entered.
C20_SampleShowsDemoOverlaps ==
  (hPc = "sampled" /\ serviceModule = "service") =>
    /\ Len(results) = 4
    /\ ReportedShared(results[1].remarks, "101", "V05-C1", "V05-C6")
    /\ ReportedShared(results[3].remarks, "101", "V05-C1", "V05-C6")
    /\ ReportedShared(results[3].remarks, "12/3", "V05-C6", "V05-C7")
    /\ ReportedShared(results[4].remarks, "12/3", "V05-C6", "V05-C7")
    /\ results[2].remarks = "No overlaps detected"

(***************************************************************************)
(* Properties of the two Apps' handlers.                                   *)
(***************************************************************************)
\* the step is one in which a run of handleAnalyze takes its catch path
\* the step is one in which a run of handleAnalyze fails: in part_001 the
\* batch is over and a call rejected or resolved with a value without an
\* array of partitions; in App.tsx the run ends in its catch block
AnalyzeFails ==
  \/ /\ mounted = "part_001"
     /\ hPc = "awaiting"
     /\ hPc' = "analyzed"
     /\ ~AllWithPartitions(calls')
  \/ mounted = "App.tsx" /\ Len(ops') < Len(ops) /\ hPc' = "failed"

\* the step leaves a run of handleAnalyze short of its end: the click, or a
\* call settling while others are awaited
AnalyzeGoesOn ==
  \/ mounted = "part_001" /\ hPc' = "awaiting"
  \/ mounted = "App.tsx" /\ ops' # ops /\ Len(ops') >= Len(ops)

FailureMessage ==
  IF mounted = "part_001"
  THEN "Failed to analyze maps. Check console for details."
  ELSE "Analysis failed. Please check your API Key and try again."

\* C21: a run of handleAnalyze that fails, because a call rejects or because
\* processing throws, sets the error message and leaves results as it was:
\* nothing is stored while the run goes on, so partitions of the files that
\* succeeded are not published and no output of processOverlaps is stored;
\* invoked with no files selected, handleAnalyze changes no state of the
\* component.
C21_FailureLeavesResults ==
  [][ /\ AnalyzeFails => (results' = results /\ appError' = FailureMessage)
      /\ AnalyzeGoesOn => results' = results
      /\ (hPc # "returned" /\ hPc' = "returned") =>
           UNCHANGED <<files, results, isAnalyzing, appError>> ]_vars

\* processing threw on a batch of two files, one of which had yielded
\* partitions and the other an object without partitions, and the results of
\* an earlier run are still on display
C21_Witness ==
  /\ mounted = "part_001"
  /\ hPc = "analyzed"
  /\ resolverRuns = 1
  /\ appError = "Failed to analyze maps. Check console for details."
  /\ Len(results) > 0
  /\ results # resolverArg.partitions
  /\ Len(calls) = 2
  /\ AllResolved(calls)
  /\ "partitions" \in DOMAIN calls[1].promise.value
  /\ Len(calls[1].promise.value.partitions) > 0
  /\ "partitions" \notin DOMAIN calls[2].promise.value

\* the step ends a run of handleAnalyze or of handleSampleData (part_001)
RunEnds ==
  /\ mounted = "part_001"
  /\ hPc \in {"awaiting", "sample"}
  /\ hPc' \in {"analyzed", "sampled"}

\* C22: every run of handleAnalyze or handleSampleData that sets isAnalyzing
\* to true sets it back to false, on the success path and on every failure
\* path (a call rejects, processing throws), provided the calls settle: the
\* step that ends a run leaves isAnalyzing false; and in the step in which
\* isAnalyzing returns to false on a success path, results holds the new
\* batch.
C22_IsAnalyzingReturnsToFalse ==
  /\ isAnalyzing ~> ~isAnalyzing
  /\ [][ /\ RunEnds => ~isAnalyzing'
         /\ (isAnalyzing /\ ~isAnalyzing' /\ appError' = null) =>
              /\ resolverRuns' = 1
              /\ results' = processOverlaps(resolverArg')
              /\ hPc' = "analyzed" =>
                   resolverArg'.partitions = InFileOrder(calls') ]_vars

\* a run of handleAnalyze over two files has ended on its success path
C22_Witness ==
  /\ mounted = "part_001"
  /\ hPc = "analyzed"
  /\ ~isAnalyzing
  /\ appError = null
  /\ Len(calls) = 2
  /\ AllResolved(calls)
  /\ Len(results) > 0

\* C23: a request carries a thinkingConfig exactly when the option chosen is
\* ModelType.PRO_REASONING; a request made with ModelType.FLASH carries none.
C23_ThinkingConfigOnlyForProReasoning ==
  \A k \in 1..Len(sent) :
    ("thinkingConfig" \in DOMAIN sent[k].config) <=> (selected = "PRO_REASONING")

\* the partition ids of a batch, in order
IdsFrom(partitions) == [i \in 1..Len(partitions) |-> partitions[i].partitionId]

\* the objects of MOCK_DATA as the module built them
MockObjects == Store(<<>>, MOCK_DATA_geminiService).heap

\* C24: no sequence of analyzeVillageMap and getSampleData calls with
\* overrides writes to an object of MOCK_DATA (applyOverrides works on new
\* objects), so MOCK_DATA reads as at the start, and a call that reads the
\* demo data returns it with the call's own overrides only: without overrides,
\* the original four partitions V05-C1, V05-C2, V05-C6, V05-C7 with their
\* village name and survey numbers, whatever calls came before it.
C24_DemoDatasetFixed ==
  /\ mockData = MOCK_DATA_geminiService
  /\ \A a \in 1..Len(MockObjects) : xHeap[a] = MockObjects[a]
  /\ \A k \in 1..Len(xPending) :
       xPending[k].pc = "timer" => xPending[k].result > Len(MockObjects)
  /\ \A k \in 1..Len(xLog) :
       xLog[k].fn # "service" =>
         /\ xLog[k].value = applyOverrides(MOCK_DATA_geminiService,
                                           xLog[k].manualVillageName,
                                           xLog[k].manualPartitionId)
         /\ (xLog[k].manualVillageName = "" /\ xLog[k].manualPartitionId = "") =>
              /\ xLog[k].value = MOCK_DATA_geminiService
              /\ IdsFrom(xLog[k].value.partitions) =
                   <<"V05-C1", "V05-C2", "V05-C6", "V05-C7">>

\* a call with both overrides was followed by a call without overrides
C24_Witness ==
  /\ Len(xLog) = 2
  /\ xLog[1].fn # "service"
  /\ xLog[1].manualVillageName # ""
  /\ xLog[1].manualPartitionId # ""
  /\ IdsFrom(xLog[1].value.partitions) = <<"V09-C2", "V09-C2", "V09-C2", "V09-C2">>
  /\ xLog[2].fn = "getSampleData"
  /\ xLog[2].manualVillageName = ""
  /\ xLog[2].manualPartitionId = ""
  /\ xLog[2].value = MOCK_DATA_geminiService

\* C25: the remarks depend only on the partitionId and surveyNumbers of the
\* batch: a batch that differs from another in a villageName or in a
\* pre-existing remarks field gets the same remarks, partition for partition
\* (an input remarks is overwritten, never reused or appended to).
C25_RemarksIgnoreVillageAndOldRemarks ==
  pc = "variant" =>
    /\ Len(second) = Len(processed)
    /\ \A i \in 1..Len(processed) :
         /\ snapshot.partitions[i].partitionId = rawData.partitions[i].partitionId
         /\ snapshot.partitions[i].surveyNumbers = rawData.partitions[i].surveyNumbers
         /\ second[i].remarks = processed[i].remarks

\* the resolver has run on a batch with overlaps and on its variant with a
\* pre-existing remarks on an overlapping partition
C25_Witness ==
  /\ pc = "variant"
  /\ snapshot # rawData
  /\ \E i \in 1..Len(processed) :
       /\ "remarks" \in DOMAIN snapshot.partitions[i]
       /\ "remarks" \notin DOMAIN rawData.partitions[i]
       /\ processed[i].remarks # NoOverlaps
       /\ second[i].remarks # snapshot.partitions[i].remarks

\* C26: in src/src/App.tsx isAnalyzing is true whenever a run of handleAnalyze
\* or of loadSample is in flight, and at most one operation that will write
\* results is in flight at a time.
C26_BusyWhileInFlight ==
  (mounted = "App.tsx" /\ ops # <<>>) => (isAnalyzing /\ Len(ops) = 1)

\* C27: every partition held in results carries the remarks that
\* processOverlaps computes over the whole batch on display (results is the
\* resolver's output for its own partitions), in both Apps.
C27_ResultsPassedThroughResolver ==
  /\ \A i \in 1..Len(results) : "remarks" \in DOMAIN results[i]
  /\ results = processOverlaps([partitions |-> results])

\* a is a prefix of b
IsPrefix(a, b) == Len(a) <= Len(b) /\ SubSeq(b, 1, Len(a)) = a

\* C28: over one whole call, retries included, the argument of each onChunk
\* invocation has the argument of the previous invocation as a prefix.
C28_OnChunkTextNeverShrinks ==
  \A k \in 2..Len(onChunkArgs) : IsPrefix(onChunkArgs[k - 1], onChunkArgs[k])

\* C29: a call that has made its request ends by returning or by throwing;
\* what it returns is the full text of the attempt that succeeded, what it
\* throws is the error of the last failed attempt, and it never throws
\* "Unexpected end of analysis stream.".
C29_CallTerminates ==
  /\ (sPc = "requesting") ~> (sPc \in {"returned", "thrown"})
  /\ [](sPc = "returned" =>
          sReturn = join(SelectSeq(received, LAMBDA c : c # ""), ""))
  /\ [](sPc = "thrown" =>
          (Len(failures) > 0 /\ sError = failures[Len(failures)]))
  /\ [](sError.message # "Unexpected end of analysis stream.")

\* the third attempt of a call has succeeded after two rate-limited ones
C29_Witness ==
  /\ sPc = "returned"
  /\ requests = 3
  /\ Len(failures) = 2
  /\ Len(waits) = 2
  /\ sReturn # ""

\* a remarks string read back: the flagged number of each entry and the ids
\* to the right of its arrow
EntriesOf(remarks) ==
  LET E == Entries(remarks)
  IN  [k \in 1..Len(E) |->
         LET p == IndexOf(E[k], Arrow)
         IN  [num |-> SubSeq(E[k], 1, p - 1),
              ids |-> SplitStr(SubSeq(E[k], p + Len(Arrow), Len(E[k])), " / ")]]

\* a and b hold the same elements the same number of times
SameBag(a, b) ==
  /\ Len(a) = Len(b)
  /\ \A x \in Range(a) \cup Range(b) : Count(a, x) = Count(b, x)

\* C30: permuting the input partitions permutes the output partitions
\* accordingly: each partition keeps its fields, its sentinel or non-sentinel
\* status and its sequence of flagged survey numbers; the ids to the right of
\* each arrow are the same ids in a possibly different order.
C30_FlaggedNumbersIgnoreInputOrder ==
  pc = "permuted" =>
    LET first == processOverlaps(rawData)
    IN  /\ processed = first
        /\ \A perm \in PermutationsOf(Len(InParts)) :
             (\A k \in 1..Len(InParts) : snapshot.partitions[k] = InParts[perm[k]]) =>
               /\ Len(second) = Len(first)
               /\ \A k \in 1..Len(second) :
                    LET a == EntriesOf(second[k].remarks)
                        b == EntriesOf(first[perm[k]].remarks)
                    IN  /\ Stripped(second[k]) = Stripped(first[perm[k]])
                        /\ (second[k].remarks = NoOverlaps) <=>
                             (first[perm[k]].remarks = NoOverlaps)
                        /\ Len(a) = Len(b)
                        /\ \A e \in 1..Len(a) :
                             /\ a[e].num = b[e].num
                             /\ SameBag(a[e].ids, b[e].ids)

\* the resolver has run on a batch and on a reordering of it in which the ids
\* to the right of an arrow come in another order
C30_Witness ==
  /\ pc = "permuted"
  /\ snapshot # rawData
  /\ Len(processed) = 3
  /\ second[1] = [processed[3] EXCEPT !.remarks = second[1].remarks]
  /\ second[1].remarks # processed[3].remarks
  /\ Len(EntriesOf(second[1].remarks)) = 2

====
